---- MODULE Spec2Model ----
(***************************************************************************)
(* Model of the weekly fantasy-football report builder                     *)
(* (.github/workflows/compose_email.py): the derivations that turn the     *)
(* league JSON into matchups, standings and per-team week rows.            *)
(*                                                                         *)
(* JSON values are tagged records (JMissing = key absent, JNull = None).   *)
(* Point totals are integers in thousandths of a point, so that round(x,2) *)
(* is a real conversion.  A string is a sequence of tokens, each a word or *)
(* the whitespace token " ", so that str.strip() is a real conversion.     *)
(***************************************************************************)
EXTENDS Integers, Sequences, FiniteSets, TLC

VARIABLES pc, week, teams, schedule, boxscore,
          team_map, matchups, standings, week_rows,
          challenge, power, next_challenge, narrative,
          weekly_challenges, net,
          server, out, fetch, http,
          mail_env, mail_pc, mail_msg, api_calls

\* the network as espn_fetch_jsons meets it: what the requests of the past
\* weeks come to, what the server holds, the payloads fetched so far, the
\* position in the fetch, the requests made
fetchVars == <<net, server, out, fetch, http>>

\* gmail_send.py: its environment, its position, the message it built, the
\* Gmail API calls it made
mailVars == <<mail_env, mail_pc, mail_msg, api_calls>>

ioVars == <<fetchVars, mailVars>>

vars == <<pc, week, teams, schedule, boxscore,
          team_map, matchups, standings, week_rows,
          challenge, power, next_challenge, narrative,
          weekly_challenges, ioVars>>

-----------------------------------------------------------------------------
(* Bounds of the model *)

MaxSched == 2
MaxTeams == 2
MaxRoster == 2
MaxStand == 3

-----------------------------------------------------------------------------
(* JSON values *)

JMissing == [k |-> "missing", n |-> 0, s |-> <<>>]
JNull == [k |-> "null", n |-> 0, s |-> <<>>]
JDict == [k |-> "dict", n |-> 0, s |-> <<>>]
Num(v) == [k |-> "num", n |-> v, s |-> <<>>]
Str(toks) == [k |-> "str", n |-> 0, s |-> toks]

\* d.get(key): an absent key reads as None
Get(v) == IF v.k = "missing" THEN JNull ELSE v

\* d.get(key, default): only an absent key reads as the default
GetDefault(v, d) == IF v.k = "missing" THEN d ELSE v

\* Python truthiness of a JSON value
Truthy(v) ==
    CASE v.k = "num" -> v.n # 0
      [] v.k = "str" -> v.s # <<>>
      [] v.k = "dict" -> TRUE
      [] OTHER -> FALSE

\* x or y
Or(x, y) == IF Truthy(x) THEN x ELSE y

\* isinstance(v, (int, float))
IsNumber(v) == v.k = "num"

\* float(x or 0) / int(x or 0) of a JSON number or None
NumOrZero(v) == IF Truthy(Get(v)) /\ v.k = "num" THEN v.n ELSE 0

Abs(x) == IF x < 0 THEN -x ELSE x

\* round(x, 2) of a value in thousandths: nearest hundredth, an exact half
\* to the even hundredth; the result is again in thousandths.
Round2(x) ==
    LET a == Abs(x)
        q == a \div 10
        r == a % 10
        up == \/ r > 5
              \/ r = 5 /\ q % 2 = 1
        m == IF up THEN (q + 1) * 10 ELSE q * 10
    IN  IF x < 0 THEN -m ELSE m

-----------------------------------------------------------------------------
(* Strings as token sequences *)

RECURSIVE LStrip(_)
LStrip(s) == IF s # <<>> /\ Head(s) = " " THEN LStrip(Tail(s)) ELSE s

RECURSIVE RStrip(_)
RStrip(s) ==
    IF s # <<>> /\ s[Len(s)] = " " THEN RStrip(SubSeq(s, 1, Len(s) - 1)) ELSE s

\* str.strip()
Strip(s) == RStrip(LStrip(s))

\* (t.get(key) or "").strip()
StrField(v) == IF Truthy(Get(v)) /\ v.k = "str" THEN Strip(v.s) ELSE <<>>

UpperTok(t) ==
    CASE t = "home" -> "HOME"
      [] t = "away" -> "AWAY"
      [] t = "tie" -> "TIE"
      [] t = "undecided" -> "UNDECIDED"
      [] OTHER -> t

\* str.upper()
Upper(s) == [i \in DOMAIN s |-> UpperTok(s[i])]

LowerTok(t) ==
    CASE t = "Application/JSON" -> "application/json"
      [] t = "Draft" -> "draft"
      [] t = "SEND" -> "send"
      [] OTHER -> t

\* str.lower()
Lower(s) == [i \in DOMAIN s |-> LowerTok(s[i])]

\* str(x) inside an f-string, for a team id
IdText(v) == IF v.k = "num" THEN ToString(v.n) ELSE "None"

\* f"Team {tid}"
TeamN(v) == <<"Team", " ", IdText(v)>>

-----------------------------------------------------------------------------
(* Team Directory *)

\* mutant: the abbreviation is tried before the name
_team_display_name_AbbrevFirst(t) ==
    LET loc == StrField(t.location)
        nick == StrField(t.nickname)
        nm == StrField(t.name)
        abbr == StrField(t.abbrev)
        tid == Get(t.id)
    IN  IF loc # <<>> \/ nick # <<>> THEN Strip(loc \o <<" ">> \o nick)
        ELSE IF abbr # <<>> THEN abbr
        ELSE IF nm # <<>> THEN nm
        ELSE IF tid.k # "null" THEN TeamN(tid) ELSE <<"Team">>

_team_display_name(t) ==
    LET loc == StrField(t.location)
        nick == StrField(t.nickname)
        nm == StrField(t.name)
        abbr == StrField(t.abbrev)
        tid == Get(t.id)
    IN  IF loc # <<>> \/ nick # <<>> THEN Strip(loc \o <<" ">> \o nick)
        ELSE IF nm # <<>> THEN nm
        ELSE IF abbr # <<>> THEN abbr
        ELSE IF tid.k # "null" THEN TeamN(tid) ELSE <<"Team">>

\* {t.get("id"): _team_display_name(t) for t in teams if t.get("id") is not None}
\* a later record with the same id replaces an earlier one
BuildTeamMap(ts) ==
    LET keyed == {i \in DOMAIN ts : Get(ts[i].id).k = "num"}
        ids == {ts[i].id.n : i \in keyed}
        last(id) == CHOOSE i \in keyed :
                        /\ ts[i].id.n = id
                        /\ \A j \in keyed : ts[j].id.n = id => j <= i
    IN  [id \in ids |-> _team_display_name(ts[last(id)])]

\* team_map.get(tid, f"Team {tid}")
TeamMapGet(tm, tid) ==
    IF tid.k = "num" /\ tid.n \in DOMAIN tm THEN tm[tid.n] ELSE TeamN(tid)

-----------------------------------------------------------------------------
(* Matchup Summarizer *)

\* (m.get("winner") or "UNDECIDED").upper()
WinnerFlag(m) ==
    IF Truthy(Get(m.winner)) /\ m.winner.k = "str"
    THEN Upper(m.winner.s) ELSE <<"UNDECIDED">>

\* mutant: equal points are a tie whatever the flag
DecideWinner_TieIgnoresFlag(winner_flag, home_pts, away_pts) ==
    IF winner_flag = <<"HOME">> /\ home_pts # away_pts THEN "home"
    ELSE IF winner_flag = <<"AWAY">> /\ home_pts # away_pts THEN "away"
    ELSE IF home_pts > away_pts THEN "home"
    ELSE IF away_pts > home_pts THEN "away"
    ELSE "tie"

\* mutant: the point comparison comes before the flag
DecideWinner_PointsFirst(winner_flag, home_pts, away_pts) ==
    IF home_pts > away_pts THEN "home"
    ELSE IF away_pts > home_pts THEN "away"
    ELSE IF winner_flag # <<"UNDECIDED">> THEN "tie"
    ELSE "undecided"

\* the if/elif chain deciding a matchup's winner
DecideWinner(winner_flag, home_pts, away_pts) ==
    IF winner_flag = <<"HOME">> /\ home_pts # away_pts THEN "home"
    ELSE IF winner_flag = <<"AWAY">> /\ home_pts # away_pts THEN "away"
    ELSE IF home_pts > away_pts THEN "home"
    ELSE IF away_pts > home_pts THEN "away"
    ELSE IF home_pts = away_pts /\ winner_flag # <<"UNDECIDED">> THEN "tie"
    ELSE "undecided"

\* mutant: the margin keeps its sign
RawMargin_Signed(home_pts, away_pts) == home_pts - away_pts

\* abs(home_pts - away_pts), before rounding
RawMargin(home_pts, away_pts) == Abs(home_pts - away_pts)

\* the record appended for one schedule entry
MatchupRecord(m, tm) ==
    LET hid == m.home.teamId
        aid == m.away.teamId
        home_pts == NumOrZero(m.home.totalPoints)
        away_pts == NumOrZero(m.away.totalPoints)
    IN  [home_id |-> hid,
         away_id |-> aid,
         home |-> TeamMapGet(tm, hid),
         away |-> TeamMapGet(tm, aid),
         home_pts |-> Round2(home_pts),
         away_pts |-> Round2(away_pts),
         winner |-> DecideWinner(WinnerFlag(m), home_pts, away_pts),
         abs_margin |-> Round2(RawMargin(home_pts, away_pts))]

\* mutant: only the home side is required
MatchupKept_HomeOnly(m, wk) ==
    /\ Get(m.matchupPeriodId) = Num(wk)
    /\ m.home.has

\* the two `continue` guards of the loop
MatchupKept(m, wk) ==
    /\ Get(m.matchupPeriodId) = Num(wk)
    /\ m.away.has /\ m.home.has

RECURSIVE MatchupLoop(_, _, _)
MatchupLoop(sched, tm, wk) ==
    IF sched = <<>> THEN <<>>
    ELSE (IF MatchupKept(Head(sched), wk)
          THEN <<MatchupRecord(Head(sched), tm)>> ELSE <<>>)
         \o MatchupLoop(Tail(sched), tm, wk)

summarize_matchups(sched, ts, wk) == MatchupLoop(sched, BuildTeamMap(ts), wk)

-----------------------------------------------------------------------------
(* Standings Extractor *)

\* get_record_fields: wins, losses, ties, points_against
\* t.get("overallWins", wins) yields the top-level field whenever its key is
\* present, whatever record.overall holds
get_record_fields(t) ==
    LET wins == GetDefault(t.overallWins, Get(t.recWins))
        losses == GetDefault(t.overallLosses, Get(t.recLosses))
        ties == GetDefault(t.overallTies, Get(t.recTies))
        points_against == Get(t.recPointsAgainst)
    IN  [wins |-> NumOrZero(wins), losses |-> NumOrZero(losses),
         ties |-> NumOrZero(ties), pa |-> NumOrZero(points_against)]

get_points_for(t) ==
    LET pf == Get(t.points)
        val == Get(t.pointsScored)
        stat0 == Get(t.stat0)
    IN  IF IsNumber(pf) THEN pf.n
        ELSE IF pf.k = "dict" /\ IsNumber(val) THEN val.n
        ELSE IF IsNumber(stat0) THEN stat0.n
        ELSE 0

\* the row appended for one team
StandingsRow(t) ==
    LET rec == get_record_fields(t)
    IN  [name |-> _team_display_name(t),
         wins |-> rec.wins, losses |-> rec.losses, ties |-> rec.ties,
         points_for |-> Round2(get_points_for(t)),
         points_against |-> Round2(rec.pa)]

\* comparison of two (k1, k2) sort keys as Python compares tuples
KeyLess(a, b) ==
    \/ a.k1 < b.k1
    \/ a.k1 = b.k1 /\ a.k2 < b.k2

\* mutant: descending order got by reversing an ascending sort, which turns
\* equal-key items around
InsertDesc_EqualsFirst(sorted, x) ==
    LET before == {i \in DOMAIN sorted : KeyLess(x, sorted[i])}
        n == Cardinality(before)
    IN  SubSeq(sorted, 1, n) \o <<x>> \o SubSeq(sorted, n + 1, Len(sorted))

\* list.sort(key=..., reverse=True) is stable: an item goes after every item
\* whose key is greater or equal
InsertDesc(sorted, x) ==
    LET before == {i \in DOMAIN sorted : ~KeyLess(sorted[i], x)}
        n == Cardinality(before)
    IN  SubSeq(sorted, 1, n) \o <<x>> \o SubSeq(sorted, n + 1, Len(sorted))

\* items are [k1, k2, row]: the key computed once per row, then the sort
SortDesc(items) ==
    LET F[i \in 0..Len(items)] ==
            IF i = 0 THEN <<>> ELSE InsertDesc(F[i - 1], items[i])
        sorted == F[Len(items)]
    IN  [i \in DOMAIN sorted |-> sorted[i].row]

\* key=lambda r: (r["wins"], r["points_for"])
StandingsKey(r) == [k1 |-> r.wins, k2 |-> r.points_for, row |-> r]

\* mutant: a team record with no id is skipped, as the name map skips it
StandingsRows_SkipNoId(ts) ==
    LET keep(t) == Get(t.id).k = "num"
        F[i \in 0..Len(ts)] ==
            IF i = 0 THEN <<>>
            ELSE IF keep(ts[i]) THEN Append(F[i - 1], StandingsRow(ts[i]))
            ELSE F[i - 1]
    IN  F[Len(ts)]

\* the loop building one row per team
StandingsRows(ts) == [i \in DOMAIN ts |-> StandingsRow(ts[i])]

extract_standings(ts) ==
    LET rows == StandingsRows(ts)
    IN  SortDesc([i \in DOMAIN rows |-> StandingsKey(rows[i])])

-----------------------------------------------------------------------------
(* Roster / Player Aggregator *)

LINEUP_SLOT_BENCH == 20
LINEUP_SLOT_IR == 21
LINEUP_SLOT_FLEX == 23

\* the first number among the values of a fixed key order, else JNull
RECURSIVE FirstNumber(_)
FirstNumber(vals) ==
    IF vals = <<>> THEN JNull
    ELSE IF IsNumber(Head(vals)) THEN Head(vals)
    ELSE FirstNumber(Tail(vals))

\* a or b or c over the values of a fixed key order
RECURSIVE FirstTruthy(_)
FirstTruthy(vals) ==
    IF Len(vals) = 1 THEN Get(Head(vals))
    ELSE IF Truthy(Head(vals)) THEN Head(vals)
    ELSE FirstTruthy(Tail(vals))

\* step 3 of _extract_points: the first actual-stat record of the week whose
\* total is a number; a record whose scoringPeriodId is None raises and is
\* passed over
RECURSIVE StatsPoints(_, _)
StatsPoints(stats, wk) ==
    IF stats = <<>> THEN JNull
    ELSE LET st == Head(stats)
             val == FirstTruthy(<<st.appliedTotal, st.appliedStatTotal, st.points>>)
         IN  IF /\ IsNumber(st.scoringPeriodId)
                /\ st.scoringPeriodId.n = wk
                /\ Get(st.statSourceId) = Num(0)
                /\ IsNumber(val)
             THEN val
             ELSE StatsPoints(Tail(stats), wk)

\* step 4 of _extract_points: the sum of the numeric appliedStats values
RECURSIVE SumNumbers(_)
SumNumbers(vals) ==
    IF vals = <<>> THEN 0
    ELSE (IF IsNumber(Head(vals)) THEN Head(vals).n ELSE 0)
         + SumNumbers(Tail(vals))

_extract_points(e, wk) ==
    LET entryTotal == FirstNumber(e.totals)
        ppeTotal == IF e.playerPoolEntry = "dict"
                    THEN FirstNumber(e.ppeTotals) ELSE JNull
        statTotal == IF /\ e.playerPoolEntry = "dict" /\ e.player = "dict"
                        /\ e.stats.k = "list"
                     THEN StatsPoints(e.stats.items, wk) ELSE JNull
        any_num == \E i \in DOMAIN e.appliedStats.vals :
                      IsNumber(e.appliedStats.vals[i])
    IN  IF IsNumber(entryTotal) THEN entryTotal.n
        ELSE IF IsNumber(ppeTotal) THEN ppeTotal.n
        ELSE IF IsNumber(statTotal) THEN statTotal.n
        ELSE IF e.appliedStats.k = "dict" /\ any_num
             THEN SumNumbers(e.appliedStats.vals)
        ELSE 0

\* a ratings entry is truthy when it is a non-empty dict
RatingTruthy(r) ==
    /\ r.k = "dict"
    /\ r.other \/ \E i \in DOMAIN r.proj : r.proj[i].k # "missing"

\* ratings.get(wk_key) or ratings.get("0") or {}, then the projection keys
RatingsProj(ratings, wk) ==
    LET rW == IF RatingTruthy(ratings.at[wk]) THEN ratings.at[wk]
              ELSE ratings.at[0]
    IN  IF ratings.k = "dict" /\ RatingTruthy(rW)
        THEN FirstNumber(rW.proj) ELSE JNull

_extract_proj(e, wk) ==
    LET fromEntry == RatingsProj(e.ratings, wk)
        fromPool == IF e.playerPoolEntry = "dict"
                    THEN RatingsProj(e.ppeRatings, wk) ELSE JNull
        direct == FirstNumber(e.direct)
    IN  IF IsNumber(fromEntry) THEN fromEntry
        ELSE IF IsNumber(fromPool) THEN fromPool
        ELSE direct

\* the body of the try block raises for an entry that is no dict and for a
\* player that is null
EntryParses(e) ==
    /\ e.dict
    /\ ~(e.playerPoolEntry = "dict" /\ e.player = "null")

ParsedEntry(e, wk) ==
    LET hasPlayer == e.playerPoolEntry = "dict" /\ e.player = "dict"
        full == IF hasPlayer /\ Truthy(Get(e.fullName)) THEN e.fullName.s
                ELSE IF hasPlayer /\ Truthy(Get(e.name)) THEN e.name.s
                ELSE <<"Player">>
    IN  [name |-> full,
         posId |-> IF hasPlayer THEN Get(e.defaultPositionId) ELSE JNull,
         slotId |-> Get(e.lineupSlotId),
         points |-> Round2(_extract_points(e, wk)),
         proj |-> _extract_proj(e, wk)]

RECURSIVE parse_entries(_, _)
parse_entries(e_list, wk) ==
    IF e_list = <<>> THEN <<>>
    ELSE (IF EntryParses(Head(e_list))
          THEN <<ParsedEntry(Head(e_list), wk)>> ELSE <<>>)
         \o parse_entries(Tail(e_list), wk)

\* the inner _safe_entries: the first truthy of the two roster nestings
_safe_entries(side) ==
    LET r == IF side.rosterForCurrentScoringPeriod.k = "dict"
             THEN side.rosterForCurrentScoringPeriod
             ELSE side.rosterForMatchupPeriod
    IN  IF side.has /\ r.k = "dict" THEN r.entries ELSE <<>>

\* mutant: only the bench slot is excluded from the starters
InExclude_BenchOnly(slotId) == slotId = Num(LINEUP_SLOT_BENCH)

\* x.get("slotId") in EXCLUDE
InExclude(slotId) ==
    slotId \in {Num(LINEUP_SLOT_BENCH), Num(LINEUP_SLOT_IR)}

RECURSIVE Filter(_, _)
Filter(xs, keep) ==
    IF xs = <<>> THEN <<>>
    ELSE (IF keep[Head(xs)] THEN <<Head(xs)>> ELSE <<>>) \o Filter(Tail(xs), keep)

Starters(entries) ==
    Filter(entries, [x \in {entries[i] : i \in DOMAIN entries} |-> ~InExclude(x.slotId)])

Bench(entries) ==
    Filter(entries, [x \in {entries[i] : i \in DOMAIN entries} |-> InExclude(x.slotId)])

RECURSIVE SumProjs(_)
SumProjs(ps) ==
    IF ps = <<>> THEN 0 ELSE Head(ps).proj.n + SumProjs(Tail(ps))

\* mutant: a projection counts only when it is truthy
sum_proj_Truthy(starters) ==
    LET projs == Filter(starters,
                     [x \in {starters[i] : i \in DOMAIN starters} |-> Truthy(x.proj)])
    IN  IF projs # <<>> THEN Num(Round2(SumProjs(projs))) ELSE JNull

\* sum_proj: None when no starter has a numeric projection
sum_proj(starters) ==
    LET projs == Filter(starters,
                     [x \in {starters[i] : i \in DOMAIN starters} |-> IsNumber(x.proj)])
    IN  IF projs # <<>> THEN Num(Round2(SumProjs(projs))) ELSE JNull

\* the two rows appended for one boxscore schedule entry
WeekRowPair(m, tm, wk) ==
    LET home == m.home
        away == m.away
        hid == Get(home.teamId)
        aid == Get(away.teamId)
        h_entries == parse_entries(_safe_entries(home), wk)
        a_entries == parse_entries(_safe_entries(away), wk)
        hpts == NumOrZero(home.totalPoints)
        apts == NumOrZero(away.totalPoints)
        margin == Abs(hpts - apts)
        winner == IF hpts > apts THEN "home"
                  ELSE IF apts > hpts THEN "away" ELSE "tie"
    IN  <<[team |-> TeamMapGet(tm, hid),
           pts |-> Round2(hpts),
           opp |-> TeamMapGet(tm, aid),
           opp_pts |-> Round2(apts),
           won |-> winner = "home",
           abs_margin |-> Round2(margin),
           starters |-> Starters(h_entries),
           bench |-> Bench(h_entries),
           proj |-> sum_proj(Starters(h_entries))],
          [team |-> TeamMapGet(tm, aid),
           pts |-> Round2(apts),
           opp |-> TeamMapGet(tm, hid),
           opp_pts |-> Round2(hpts),
           won |-> winner = "away",
           abs_margin |-> Round2(margin),
           starters |-> Starters(a_entries),
           bench |-> Bench(a_entries),
           proj |-> sum_proj(Starters(a_entries))]>>

\* mutant: the rows of a later schedule entry come before those of an earlier
RECURSIVE WeekRowLoop_LaterFirst(_, _, _)
WeekRowLoop_LaterFirst(sched, tm, wk) ==
    IF sched = <<>> THEN <<>>
    ELSE WeekRowLoop_LaterFirst(Tail(sched), tm, wk)
         \o (IF Get(Head(sched).matchupPeriodId) = Num(wk)
             THEN WeekRowPair(Head(sched), tm, wk) ELSE <<>>)

\* the loop over the boxscore schedule: only the week is tested
RECURSIVE WeekRowLoop(_, _, _)
WeekRowLoop(sched, tm, wk) ==
    IF sched = <<>> THEN <<>>
    ELSE (IF Get(Head(sched).matchupPeriodId) = Num(wk)
          THEN WeekRowPair(Head(sched), tm, wk) ELSE <<>>)
         \o WeekRowLoop(Tail(sched), tm, wk)

NoRows == [k |-> "none", rows |-> <<>>]

\* None when the boxscore payload is no dict, else the list of rows
build_week_stats_from_boxscore(box, ts, wk) ==
    IF box.k # "dict" THEN NoRows
    ELSE [k |-> "list", rows |-> WeekRowLoop(box.schedule, BuildTeamMap(ts), wk)]

-----------------------------------------------------------------------------
(* Weekly Challenge Engine *)

POS_QB == 0
POS_RB == 2
POS_DST == 16
POS_K == 17
POS_TE == 6

\* a rule's None, and its (title, winner, detail) as the returned dict; detail
\* holds the values the detail string is formatted from
NoChallenge ==
    [k |-> "none", subtitle |-> "", winner |-> <<>>,
     detail |-> [player |-> <<>>, nums |-> <<>>]]

Result(title, winner, player, nums) ==
    [k |-> "result", subtitle |-> title, winner |-> winner,
     detail |-> [player |-> player, nums |-> nums]]

\* max(xs, key=...) and a `best` replaced only on a strictly greater key:
\* the index of the first greatest key, 0 for no keys
HighestIdx(keys) ==
    LET F[i \in 0..Len(keys)] ==
            IF i = 0 THEN 0
            ELSE LET best == F[i - 1]
                 IN  IF best = 0 \/ keys[i] > keys[best] THEN i ELSE best
    IN  F[Len(keys)]

\* min(xs, key=...) and a `worst` replaced only on a strictly smaller key
LowestIdx(keys) ==
    LET F[i \in 0..Len(keys)] ==
            IF i = 0 THEN 0
            ELSE LET worst == F[i - 1]
                 IN  IF worst = 0 \/ keys[i] < keys[worst] THEN i ELSE worst
    IN  F[Len(keys)]

\* the two {team, pts} rows appended per matchup, home first
RECURSIVE SideRows(_)
SideRows(ms) ==
    IF ms = <<>> THEN <<>>
    ELSE <<[team |-> Head(ms).home, pts |-> Head(ms).home_pts],
           [team |-> Head(ms).away, pts |-> Head(ms).away_pts]>>
         \o SideRows(Tail(ms))

\* the players the nested loops visit: week rows in order, and within a row
\* its starters (or its bench) in order
RECURSIVE Players(_, _)
Players(rows, list) ==
    IF rows = <<>> THEN <<>>
    ELSE LET r == Head(rows)
         IN  [j \in DOMAIN r[list] |->
                 [team |-> r.team, player |-> r[list][j].name,
                  points |-> r[list][j].points, posId |-> r[list][j].posId,
                  slotId |-> r[list][j].slotId]]
             \o Players(Tail(rows), list)

PointsOf(xs) == [i \in DOMAIN xs |-> xs[i].points]

PtsKeys(xs) == [i \in DOMAIN xs |-> xs[i].pts]

MarginKeys(xs) == [i \in DOMAIN xs |-> xs[i].abs_margin]

\* `if not week_rows`: None or the empty list
NoWeekRows(wr) == wr.k = "none" \/ wr.rows = <<>>

\* the rules that keep the best starter among those passing a test
BestStarter(title, cands) ==
    LET i == HighestIdx(PointsOf(cands))
    IN  IF i = 0 THEN NoChallenge
        ELSE Result(title, cands[i].team, cands[i].player, <<cands[i].points>>)

StartersAt(wr, pos) ==
    LET all == Players(wr.rows, "starters")
    IN  Filter(all, [x \in {all[i] : i \in DOMAIN all} |-> x.posId = Num(pos)])

highest_scoring_team(ms) ==
    LET all_rows == SideRows(ms)
        i == HighestIdx(PtsKeys(all_rows))
    IN  IF all_rows = <<>> THEN NoChallenge
        ELSE Result("Highest scoring team", all_rows[i].team, <<>>,
                    <<all_rows[i].pts>>)

team_with_highest_scoring_player_starters_incl_dst(wr) ==
    IF NoWeekRows(wr) THEN NoChallenge
    ELSE BestStarter("Highest scoring player (starter, D/ST incl.)",
                     Players(wr.rows, "starters"))

\* the bench rule replaces `worst` on a strictly smaller total
team_with_highest_scoring_bench_player(wr) ==
    LET cands == Players(wr.rows, "bench")
        i == LowestIdx(PointsOf(cands))
    IN  IF NoWeekRows(wr) \/ i = 0 THEN NoChallenge
        ELSE Result("Highest scoring bench player", cands[i].team,
                    cands[i].player, <<cands[i].points>>)

\* [m for m in matchups if m["winner"] in ("home", "away")]
Decided(ms) ==
    Filter(ms, [m \in {ms[i] : i \in DOMAIN ms} |-> m.winner \in {"home", "away"}])

WinTeam(m) == IF m.winner = "home" THEN m.home ELSE m.away

smallest_margin_of_victory(ms) ==
    LET winners == Decided(ms)
        i == LowestIdx(MarginKeys(winners))
    IN  IF winners = <<>> THEN NoChallenge
        ELSE Result("Smallest margin of victory", WinTeam(winners[i]), <<>>,
                    <<winners[i].abs_margin>>)

widest_margin_of_victory(ms) ==
    LET winners == Decided(ms)
        i == HighestIdx(MarginKeys(winners))
    IN  IF winners = <<>> THEN NoChallenge
        ELSE Result("Widest margin of victory", WinTeam(winners[i]), <<>>,
                    <<winners[i].abs_margin>>)

highest_scoring_starting_k(wr) ==
    IF NoWeekRows(wr) THEN NoChallenge
    ELSE BestStarter("Highest scoring starting K", StartersAt(wr, POS_K))

highest_scoring_starting_qb(wr) ==
    IF NoWeekRows(wr) THEN NoChallenge
    ELSE BestStarter("Highest scoring starting QB", StartersAt(wr, POS_QB))

\* the losing side of every matchup won by home or by away
RECURSIVE Losers(_)
Losers(ms) ==
    IF ms = <<>> THEN <<>>
    ELSE LET m == Head(ms)
         IN  (IF m.winner = "home"
              THEN <<[team |-> m.away, pts |-> m.away_pts]>>
              ELSE IF m.winner = "away"
              THEN <<[team |-> m.home, pts |-> m.home_pts]>>
              ELSE <<>>)
             \o Losers(Tail(ms))

\* mutant: the losing side with the fewest points is named
most_points_scored_in_losing_effort_Fewest(ms) ==
    LET rows == Losers(ms)
        i == LowestIdx(PtsKeys(rows))
    IN  IF rows = <<>> THEN NoChallenge
        ELSE Result("Most points in a losing effort", rows[i].team, <<>>,
                    <<rows[i].pts>>)

\* max(rows, key=lambda x: x["pts"]) over the losing sides
most_points_scored_in_losing_effort(ms) ==
    LET rows == Losers(ms)
        i == HighestIdx(PtsKeys(rows))
    IN  IF rows = <<>> THEN NoChallenge
        ELSE Result("Most points in a losing effort", rows[i].team, <<>>,
                    <<rows[i].pts>>)

\* f"{wins}-{losses}{-ties if ties}", then PF
RecordNums(t) ==
    <<t.wins, t.losses>> \o (IF t.ties # 0 THEN <<t.ties>> ELSE <<>>)
    \o <<t.points_for>>

\* mutant: the top row is the one with the most points for
first_place_after_week9_ByPoints(wk, st) ==
    LET i == HighestIdx([j \in DOMAIN st |-> st[j].points_for])
    IN  IF wk < 9 \/ st = <<>> THEN NoChallenge
        ELSE Result("First place overall (after 9 weeks)", st[i].name, <<>>,
                    RecordNums(st[i]))

first_place_after_week9(wk, st) ==
    IF wk < 9 \/ st = <<>> THEN NoChallenge
    ELSE Result("First place overall (after 9 weeks)", st[1].name, <<>>,
                RecordNums(st[1]))

team_with_dst_most_points(wr) ==
    IF NoWeekRows(wr) THEN NoChallenge
    ELSE BestStarter("D/ST with most points", StartersAt(wr, POS_DST))

\* total of a row's starters whose posId is POS_RB
RBTotal(r) ==
    LET F[i \in 0..Len(r.starters)] ==
            IF i = 0 THEN 0
            ELSE F[i - 1] + (IF r.starters[i].posId = Num(POS_RB)
                             THEN r.starters[i].points ELSE 0)
    IN  F[Len(r.starters)]

\* best_sum starts at -1.0 and a row replaces it on a strictly greater total
highest_combined_starting_rb_points_incl_flex(wr) ==
    LET rows == wr.rows
        F[i \in 0..Len(rows)] ==
            IF i = 0 THEN [has |-> FALSE, team |-> <<>>, sum |-> -1000]
            ELSE LET prev == F[i - 1]
                     total == RBTotal(rows[i])
                 IN  IF total > prev.sum
                     THEN [has |-> TRUE, team |-> rows[i].team, sum |-> total]
                     ELSE prev
        best == F[Len(rows)]
    IN  IF NoWeekRows(wr) \/ ~best.has THEN NoChallenge
        ELSE Result("Highest combined starting RB points", best.team, <<>>,
                    <<Round2(best.sum)>>)

\* pr = pr or p.get(k) over projectedPoints, projectedTotal, proj,
\* pointsProjected: a parsed player holds only proj, and the last step
\* turns a falsy proj into None
StarterPr(p) == Or(Or(Or(Or(JNull, JNull), JNull), p.proj), JNull)

\* proj_sum and have_proj of a row
RowProjSum(r) ==
    LET F[i \in 0..Len(r.starters)] ==
            IF i = 0 THEN [sum |-> 0, have |-> FALSE]
            ELSE LET prev == F[i - 1]
                     pr == StarterPr(r.starters[i])
                 IN  IF IsNumber(pr)
                     THEN [sum |-> prev.sum + pr.n, have |-> TRUE]
                     ELSE prev
    IN  F[Len(r.starters)]

\* a row replaces `best` when its diff is below the stored diff, which was
\* rounded to two decimals when stored
team_closest_to_projected_total(wr) ==
    LET rows == wr.rows
        none == [has |-> FALSE, team |-> <<>>, proj |-> 0, actual |-> 0,
                 diff |-> 0]
        F[i \in 0..Len(rows)] ==
            IF i = 0 THEN none
            ELSE LET best == F[i - 1]
                     ps == RowProjSum(rows[i])
                     diff == Abs(rows[i].pts - ps.sum)
                 IN  IF ~ps.have THEN best
                     ELSE IF ~best.has \/ diff < best.diff
                          THEN [has |-> TRUE, team |-> rows[i].team,
                                proj |-> Round2(ps.sum),
                                actual |-> rows[i].pts,
                                diff |-> Round2(diff)]
                          ELSE best
        best == F[Len(rows)]
    IN  IF NoWeekRows(wr) \/ ~best.has THEN NoChallenge
        ELSE Result("Closest to projected total", best.team, <<>>,
                    <<best.diff, best.proj, best.actual>>)

most_points_against_cumulative(st) ==
    LET i == HighestIdx([j \in DOMAIN st |-> st[j].points_against])
    IN  IF st = <<>> THEN NoChallenge
        ELSE Result("Most points against (season)", st[i].name, <<>>,
                    <<st[i].points_against>>)

lowest_scoring_team(ms) ==
    LET all_rows == SideRows(ms)
        i == LowestIdx(PtsKeys(all_rows))
    IN  IF all_rows = <<>> THEN NoChallenge
        ELSE Result("Lowest weekly score", all_rows[i].team, <<>>,
                    <<all_rows[i].pts>>)

highest_scoring_flex(wr) ==
    LET all == Players(wr.rows, "starters")
        flex == Filter(all, [x \in {all[i] : i \in DOMAIN all} |->
                                x.slotId = Num(LINEUP_SLOT_FLEX)])
    IN  IF NoWeekRows(wr) THEN NoChallenge
        ELSE BestStarter("Highest scoring FLEX", flex)

highest_scoring_te(wr) ==
    IF NoWeekRows(wr) THEN NoChallenge
    ELSE BestStarter("Highest scoring TE", StartersAt(wr, POS_TE))

\* the 7th row of the standings
first_team_out_overall(st) ==
    IF Len(st) < 7 THEN NoChallenge
    ELSE Result("First Team Out", st[7].name, <<>>, RecordNums(st[7]))

\* the rule table: week number -> rule, weeks 1 through 17
mapping ==
    <<"highest_scoring_team",
      "team_with_highest_scoring_player_starters_incl_dst",
      "team_with_highest_scoring_bench_player",
      "smallest_margin_of_victory",
      "widest_margin_of_victory",
      "highest_scoring_starting_k",
      "highest_scoring_starting_qb",
      "most_points_scored_in_losing_effort",
      "first_place_after_week9",
      "team_with_dst_most_points",
      "highest_combined_starting_rb_points_incl_flex",
      "team_closest_to_projected_total",
      "most_points_against_cumulative",
      "lowest_scoring_team",
      "highest_scoring_flex",
      "highest_scoring_te",
      "first_team_out_overall">>

\* mutant: a week outside the table is given the nearest week's rule
RuleOf_Clamped(wk) ==
    IF wk < 1 THEN mapping[1]
    ELSE IF wk > Len(mapping) THEN mapping[Len(mapping)]
    ELSE mapping[wk]

\* mapping.get(int(week)); "" stands for None
RuleOf(wk) == IF wk \in DOMAIN mapping THEN mapping[wk] ELSE ""

\* fn(): the rule reads the enclosing function's arguments
CallRule(fn, wk, ms, st, wr) ==
    CASE fn = "highest_scoring_team" -> highest_scoring_team(ms)
      [] fn = "team_with_highest_scoring_player_starters_incl_dst" ->
            team_with_highest_scoring_player_starters_incl_dst(wr)
      [] fn = "team_with_highest_scoring_bench_player" ->
            team_with_highest_scoring_bench_player(wr)
      [] fn = "smallest_margin_of_victory" -> smallest_margin_of_victory(ms)
      [] fn = "widest_margin_of_victory" -> widest_margin_of_victory(ms)
      [] fn = "highest_scoring_starting_k" -> highest_scoring_starting_k(wr)
      [] fn = "highest_scoring_starting_qb" -> highest_scoring_starting_qb(wr)
      [] fn = "most_points_scored_in_losing_effort" ->
            most_points_scored_in_losing_effort(ms)
      [] fn = "first_place_after_week9" -> first_place_after_week9(wk, st)
      [] fn = "team_with_dst_most_points" -> team_with_dst_most_points(wr)
      [] fn = "highest_combined_starting_rb_points_incl_flex" ->
            highest_combined_starting_rb_points_incl_flex(wr)
      [] fn = "team_closest_to_projected_total" ->
            team_closest_to_projected_total(wr)
      [] fn = "most_points_against_cumulative" ->
            most_points_against_cumulative(st)
      [] fn = "lowest_scoring_team" -> lowest_scoring_team(ms)
      [] fn = "highest_scoring_flex" -> highest_scoring_flex(wr)
      [] fn = "highest_scoring_te" -> highest_scoring_te(wr)
      [] fn = "first_team_out_overall" -> first_team_out_overall(st)

\* no rule for the week, or a rule returning None, gives None; no rule raises
\* on matchups, standings and week rows built by the three derivations
compute_week_challenge(wk, ms, st, wr) ==
    LET fn == RuleOf(wk)
    IN  IF fn = "" THEN NoChallenge ELSE CallRule(fn, wk, ms, st, wr)

-----------------------------------------------------------------------------
(* Upcoming challenge *)

\* the title table, weeks 1 through 17
titles ==
    <<"Highest scoring team",
      "Highest scoring player (starter, D/ST incl.)",
      "Highest scoring bench player",
      "Smallest margin of victory",
      "Widest margin of victory",
      "Highest scoring starting K",
      "Highest scoring starting QB",
      "Most points in a losing effort",
      "First place overall (after 9 weeks)",
      "D/ST with most points",
      "Highest combined starting RB points",
      "Closest to projected total",
      "Most points against (season)",
      "Lowest weekly score",
      "Highest scoring FLEX",
      "Highest scoring TE",
      "First Team Out">>

NoTitle == [k |-> "none", title |-> ""]

\* mutant: a week outside the table is given the nearest week's title
get_challenge_title_by_week_Clamped(wk) ==
    IF wk < 1 THEN [k |-> "str", title |-> titles[1]]
    ELSE IF wk > Len(titles) THEN [k |-> "str", title |-> titles[Len(titles)]]
    ELSE [k |-> "str", title |-> titles[wk]]

\* mutant: the table is read from week 0
get_challenge_title_by_week_FromZero(wk) ==
    IF wk + 1 \in DOMAIN titles THEN [k |-> "str", title |-> titles[wk + 1]]
    ELSE NoTitle

\* titles.get(int(week))
get_challenge_title_by_week(wk) ==
    IF wk \in DOMAIN titles THEN [k |-> "str", title |-> titles[wk]]
    ELSE NoTitle

NoUpcoming == [k |-> "none", next_week |-> 0, subtitle |-> ""]

describe_upcoming_challenge(current_week) ==
    LET next_week == current_week + 1
        title == get_challenge_title_by_week(next_week)
    IN  IF title.k = "none" THEN NoUpcoming
        ELSE [k |-> "dict", next_week |-> next_week, subtitle |-> title.title]

-----------------------------------------------------------------------------
(* The table of all weeks' challenges *)

MAX_CHALLENGE_WEEK == 17

\* what a past week's espn_fetch_jsons call comes to: it returns the
\* payloads, a request raises, or no scoreboard is had and fail() exits
FetchEnds == {"ok", "raised", "exit"}

AllOk == [wk \in 1..MAX_CHALLENGE_WEEK |-> "ok"]

\* the three derivations on the payloads fetched for week wk; the league's
\* payloads list the whole season, so every week's request brings the same
\* schedule, teams and boxscore and the derivations select the week; st is
\* extract_standings(teams), the same for every week
_fetch_week_bits(sched, ts, box, st, wk) ==
    [matchups |-> summarize_matchups(sched, ts, wk),
     standings |-> st,
     week_rows |-> build_week_stats_from_boxscore(box, ts, wk)]

\* get_challenge_title_by_week(wk) or f"Challenge Week {wk}"
WeekTitle(wk) ==
    LET t == get_challenge_title_by_week(wk)
    IN  IF t.k = "str" /\ t.title # "" THEN t.title ELSE "Challenge Week"

NoDetail == NoChallenge.detail

\* the winner of a week with no result (a dash in the source) and of a week
\* to come
Placeholder == <<"-">>
TBD == <<"TBD">>

ChallengeRow(wk, winner, detail) ==
    [week |-> wk, title |-> WeekTitle(wk), winner |-> winner, detail |-> detail]

\* wk <= current_week
IsPastWeek(wk, current_week) == wk <= current_week

\* the row appended for week wk: the try block, its except branch, or the
\* row of a week to come
WeekRowOf(wk, current_week, sched, ts, box, st, nt) ==
    IF IsPastWeek(wk, current_week)
    THEN IF nt[wk] = "raised" THEN ChallengeRow(wk, Placeholder, NoDetail)
         ELSE LET bits == _fetch_week_bits(sched, ts, box, st, wk)
                  ch == compute_week_challenge(wk, bits.matchups,
                                               bits.standings, bits.week_rows)
              IN  IF ch.k = "result"
                  THEN ChallengeRow(wk, ch.winner, ch.detail)
                  ELSE ChallengeRow(wk, Placeholder, NoDetail)
    ELSE ChallengeRow(wk, TBD, NoDetail)

\* fail() inside espn_fetch_jsons raises SystemExit, which `except Exception`
\* does not catch: the loop, and the program, end there
WeeklyExits(current_week, nt) ==
    \E wk \in 1..MAX_CHALLENGE_WEEK :
        IsPastWeek(wk, current_week) /\ nt[wk] = "exit"

\* the rows for wk in range(1, MAX_CHALLENGE_WEEK + 1), when no week exits
build_weekly_challenges(current_week, sched, ts, box, nt) ==
    LET st == extract_standings(ts)
    IN  [wk \in 1..MAX_CHALLENGE_WEEK |->
            WeekRowOf(wk, current_week, sched, ts, box, st, nt)]

-----------------------------------------------------------------------------
(* Power rankings *)

\* round(x, 3) of a value in units of 0.00001: nearest thousandth, an exact
\* half to the even thousandth; the result is again in units of 0.00001
Round3(x) ==
    LET a == Abs(x)
        q == a \div 100
        r == a % 100
        up == \/ r > 50
              \/ r = 50 /\ q % 2 = 1
        m == IF up THEN (q + 1) * 100 ELSE q * 100
    IN  IF x < 0 THEN -m ELSE m

\* mutant: a win counts once
PowerScore_WinsOnce(wins, losses, pf, pa) ==
    (100000 * wins) - (100000 * losses) + (pf - pa)

\* (2 * wins) - losses + (pf - pa) / 100.0, in units of 0.00001 with pf and
\* pa in thousandths
PowerScore(wins, losses, pf, pa) ==
    (2 * 100000 * wins) - (100000 * losses) + (pf - pa)

\* the row appended for one standings row
PowerRow(r) ==
    [name |-> r.name,
     record |-> <<r.wins, r.losses>> \o (IF r.ties # 0 THEN <<r.ties>> ELSE <<>>),
     pf |-> Round2(r.points_for),
     pa |-> Round2(r.points_against),
     score |-> Round3(PowerScore(r.wins, r.losses, r.points_for,
                                 r.points_against))]

\* mutant: rows are ordered by score alone
PowerKey_ScoreOnly(r) == [k1 |-> r.score, k2 |-> 0, row |-> r]

\* key=lambda x: (x["score"], x["pf"])
PowerKey(r) == [k1 |-> r.score, k2 |-> r.pf, row |-> r]

\* r["rank"] = i
WithRank(r, i) ==
    [name |-> r.name, record |-> r.record, pf |-> r.pf, pa |-> r.pa,
     score |-> r.score, rank |-> i]

compute_power_rankings(st) ==
    LET rows == [i \in DOMAIN st |-> PowerRow(st[i])]
        sorted == SortDesc([i \in DOMAIN rows |-> PowerKey(rows[i])])
    IN  IF st = <<>> THEN <<>>
        ELSE [i \in DOMAIN sorted |-> WithRank(sorted[i], i)]

-----------------------------------------------------------------------------
(* Narrative blurb *)

\* mutant: the closest game is looked for among the decided games only
ClosestIdx_Decided(ms) ==
    LET keys == [i \in DOMAIN ms |->
                    IF ms[i].winner \in {"home", "away"}
                    THEN ms[i].abs_margin ELSE 1000000000]
    IN  LowestIdx(keys)

\* min(matchups, key=lambda m: m["abs_margin"])
ClosestIdx(ms) == LowestIdx(MarginKeys(ms))

\* max(matchups, key=lambda m: m["abs_margin"])
BlowoutIdx(ms) == HighestIdx(MarginKeys(ms))

Min(a, b) == IF a < b THEN a ELSE b

\* min(matchups, key=lambda m: min(m["home_pts"], m["away_pts"]))
LowestPairIdx(ms) ==
    LowestIdx([i \in DOMAIN ms |-> Min(ms[i].home_pts, ms[i].away_pts)])

\* mutant: the rotation follows the week number itself
PhrasingIndex_WeekMod(wk) == wk % 3

\* idx = (int(week) - 1) % 3
PhrasingIndex(wk) == (wk - 1) % 3

\* mutant: a deficit of exactly 20 points does not qualify
IsUnderperf_Strict(proj, pts) == IsNumber(proj) /\ (proj.n - pts) > 20000

\* isinstance(proj, (int, float)) and (proj - pts) >= 20
IsUnderperf(proj, pts) == IsNumber(proj) /\ (proj.n - pts) >= 20000

\* the underperf list: one item per qualifying week row, in row order
RECURSIVE Underperf(_)
Underperf(rows) ==
    IF rows = <<>> THEN <<>>
    ELSE LET r == Head(rows)
         IN  (IF IsUnderperf(r.proj, r.pts)
              THEN <<[team |-> r.team, proj |-> r.proj.n, pts |-> r.pts,
                      delta |-> Round2(r.proj.n - r.pts)]>>
              ELSE <<>>)
             \o Underperf(Tail(rows))

NoCallout == [k |-> "none", phrasing |-> 0, team |-> <<>>, proj |-> 0,
              pts |-> 0, delta |-> 0]

\* the line appended from u_msgs[idx], when some row qualifies
UnderperfCallout(wr, idx) ==
    LET underperf == Underperf(wr.rows)
        i == HighestIdx([j \in DOMAIN underperf |-> underperf[j].delta])
    IN  IF wr.k = "list" /\ wr.rows # <<>> /\ underperf # <<>>
        THEN [k |-> "line", phrasing |-> idx, team |-> underperf[i].team,
              proj |-> underperf[i].proj, pts |-> underperf[i].pts,
              delta |-> underperf[i].delta]
        ELSE NoCallout

NoGame == [home |-> <<>>, away |-> <<>>, abs_margin |-> 0]

GameLine(m) == [home |-> m.home, away |-> m.away, abs_margin |-> m.abs_margin]

\* "No results yet for Week {week}."
NoNarrative ==
    [k |-> "none", closest |-> NoGame, blowout |-> NoGame, under |-> NoCallout,
     lowest |-> [phrasing |-> 0, team |-> <<>>, score |-> 0]]

\* the lines in order: closest game, blowout, the underperformance line when
\* there is one, the lowest-score line from l_msgs[idx]
build_narrative(ms, wk, wr) ==
    LET closest == ms[ClosestIdx(ms)]
        blowout == ms[BlowoutIdx(ms)]
        lowest_pair == ms[LowestPairIdx(ms)]
        loser_team == IF lowest_pair.home_pts < lowest_pair.away_pts
                      THEN lowest_pair.home ELSE lowest_pair.away
        loser_score == Min(lowest_pair.home_pts, lowest_pair.away_pts)
        idx == PhrasingIndex(wk)
    IN  IF ms = <<>> THEN NoNarrative
        ELSE [k |-> "text", closest |-> GameLine(closest),
              blowout |-> GameLine(blowout),
              under |-> UnderperfCallout(wr, idx),
              lowest |-> [phrasing |-> idx, team |-> loser_team,
                          score |-> loser_score]]

-----------------------------------------------------------------------------
(* Inputs *)

NoTeam ==
    [id |-> JMissing, location |-> JMissing, nickname |-> JMissing,
     name |-> JMissing, abbrev |-> JMissing,
     recWins |-> JMissing, recLosses |-> JMissing, recTies |-> JMissing,
     recPointsAgainst |-> JMissing,
     overallWins |-> JMissing, overallLosses |-> JMissing,
     overallTies |-> JMissing,
     points |-> JMissing, pointsScored |-> JMissing, stat0 |-> JMissing]

NamedTeam(id, word) ==
    [NoTeam EXCEPT !.id = Num(id), !.location = Str(<<word>>)]

NoRoster == [k |-> "missing", entries |-> <<>>]

Roster(es) == [k |-> "dict", entries |-> es]

NoSide == [has |-> FALSE, teamId |-> JMissing, totalPoints |-> JMissing,
           rosterForCurrentScoringPeriod |-> NoRoster,
           rosterForMatchupPeriod |-> NoRoster]

Side(tid, pts) == [NoSide EXCEPT !.has = TRUE, !.teamId = Num(tid),
                                 !.totalPoints = pts]

Entry(period, home, away, flag) ==
    [matchupPeriodId |-> period, home |-> home, away |-> away, winner |-> flag]

Boxscore(sched) == [k |-> "dict", schedule |-> sched]

NoBoxscore == [k |-> "null", schedule |-> <<>>]

Weeks == {1, 2}

SeqsUpTo(S, n) == UNION {[1..k -> S] : k \in 0..n}

\* games: home id, away id, home and away point totals (thousandths)
Games ==
    {<<1, 2, Num(110000), Num(90000)>>, <<3, 4, Num(996), Num(1004)>>,
     <<5, 6, Num(80000), Num(80000)>>, <<7, 8, JMissing, JNull>>,
     <<1, 4, JNull, Num(1004)>>}

WinnerFlags ==
    {JMissing, Str(<<"HOME">>), Str(<<"AWAY">>), Str(<<"TIE">>),
     Str(<<"UNDECIDED">>)}

GameEntry(g, f) == Entry(Num(1), Side(g[1], g[3]), Side(g[2], g[4]), f)

\* entries of week 1 with both sides: every game under every flag, and a
\* null, an empty and a lower-case flag
FullEntries ==
    {GameEntry(g, f) : g \in Games, f \in WinnerFlags}
    \cup {GameEntry(<<5, 6, Num(80000), Num(80000)>>, JNull),
          GameEntry(<<5, 6, Num(80000), Num(80000)>>, Str(<<>>)),
          GameEntry(<<3, 4, Num(996), Num(1004)>>, Str(<<"home">>))}

\* entries of another week, with no period, or missing a side
PartEntries ==
    {Entry(p, Side(9, Num(110000)), Side(2, Num(90000)), Str(<<"HOME">>)) :
        p \in {Num(2), JMissing}}
    \cup {Entry(Num(1), h, a, Str(<<"HOME">>)) :
            h \in {NoSide, Side(9, Num(110000))},
            a \in {NoSide, Side(2, Num(90000))}}

MatchEntries == FullEntries \cup PartEntries

LeagueTeams ==
    <<NamedTeam(1, "A"), NamedTeam(2, "B"), NamedTeam(3, "C")>>

\* location, nickname, name, abbrev of a raw team record
NameShapes ==
    {<<Str(<<" ", "Geno", " ">>), Str(<<"Squad">>), JMissing, JMissing>>,
     <<Str(<<"Geno">>), JMissing, Str(<<"Hawks">>), Str(<<"GS">>)>>,
     <<JNull, Str(<<" ", "Squad">>), Str(<<"Hawks">>), JMissing>>,
     <<Str(<<" ">>), JMissing, Str(<<" ", "Hawks", " ">>), Str(<<"GS">>)>>,
     <<JMissing, Str(<<>>), JNull, Str(<<"GS", " ">>)>>,
     <<JMissing, JMissing, Str(<<" ">>), JNull>>,
     <<JMissing, JMissing, JMissing, JMissing>>}

TeamIds == {JMissing, JNull, Num(0), Num(7), Num(8)}

RawTeams ==
    {[NoTeam EXCEPT !.id = i, !.location = sh[1], !.nickname = sh[2],
                    !.name = sh[3], !.abbrev = sh[4]] :
        i \in TeamIds, sh \in NameShapes}

\* a league's teams have distinct ids
DistinctIds(ts) ==
    \A i, j \in DOMAIN ts :
        i # j /\ ts[i].id.k = "num" /\ ts[j].id.k = "num" => ts[i].id # ts[j].id

\* one game of week 1 between each pair of looked-up ids
LookupEntries ==
    {Entry(Num(1), Side(h, Num(110000)), Side(a, Num(90000)), JMissing) :
        h \in {0, 7}, a \in {8, 9}}

\* no request is in hand: main() holds the payloads, and every past week's
\* fetch returns
NoServer ==
    [sb_teams |-> FALSE, schedule |-> <<>>, teams |-> <<>>, boxscore |-> NoBoxscore]

NoOut == [scoreboard |-> "none", teams |-> "none", boxscore |-> "none"]

Fetched ==
    /\ server = NoServer
    /\ out = NoOut
    /\ fetch = [phase |-> "returned", host |-> 0, i |-> 0]
    /\ http = <<>>

AllFetched == Fetched /\ net = AllOk

NoMailEnv ==
    [FROM_EMAIL |-> JMissing, SEND_MODE |-> JMissing, RECIPIENTS |-> JMissing,
     subject_txt |-> JMissing, secrets |-> FALSE]

NoMessage == [subject |-> <<>>, to |-> <<>>]

\* gmail_send.py is not run
MailIdle ==
    /\ mail_env = NoMailEnv
    /\ mail_pc = "idle"
    /\ mail_msg = NoMessage
    /\ api_calls = <<>>

NothingDerived ==
    /\ team_map = <<>>
    /\ matchups = <<>>
    /\ standings = <<>>
    /\ week_rows = NoRows
    /\ challenge = NoChallenge
    /\ power = <<>>
    /\ next_challenge = NoUpcoming
    /\ narrative = NoNarrative
    /\ weekly_challenges = <<>>

\* main() before its first derivation
InitDerived == pc = "start" /\ NothingDerived

InitCommon == InitDerived /\ AllFetched /\ MailIdle

\* inputs of the Matchup Summarizer
InitMatch ==
    /\ InitCommon
    /\ week \in Weeks
    /\ teams = LeagueTeams
    /\ schedule \in SeqsUpTo(MatchEntries, MaxSched)
    /\ boxscore = NoBoxscore

\* inputs of the Team Directory
InitTeams ==
    /\ InitCommon
    /\ week = 1
    /\ teams \in {ts \in SeqsUpTo(RawTeams, MaxTeams) : DistinctIds(ts)}
    /\ schedule \in {<<e>> : e \in LookupEntries}
    /\ boxscore = NoBoxscore

\* record and points fields of a raw team: record.overall wins, ties and
\* pointsAgainst, top-level overallWins and overallTies, points (a number or
\* a dict holding scored), valuesByStat["0"]
StatShapes ==
    {[NoTeam EXCEPT !.recWins = Num(5), !.points = Num(100000)],
     [NoTeam EXCEPT !.recWins = Num(5), !.recTies = Num(1),
                    !.recPointsAgainst = Num(50004), !.points = JDict,
                    !.pointsScored = Num(120000)],
     [NoTeam EXCEPT !.recWins = Num(3), !.stat0 = Num(200000)],
     [NoTeam EXCEPT !.recWins = Num(5), !.overallWins = Num(3),
                    !.points = Num(100004)],
     [NoTeam EXCEPT !.overallWins = Num(5), !.overallTies = Num(2),
                    !.points = Num(100000)],
     NoTeam}

\* name and id of a raw team; the last has neither
StandNames ==
    {<<Str(<<"A">>), Num(1)>>, <<Str(<<"B">>), Num(2)>>,
     <<Str(<<"C">>), JMissing>>, <<JMissing, JMissing>>}

StandTeams ==
    {[st EXCEPT !.name = nm[1], !.id = nm[2]] :
        st \in StatShapes, nm \in StandNames}

DistinctNames(ts) ==
    \A i, j \in DOMAIN ts : i # j => ts[i].name # ts[j].name

\* inputs of the Standings Extractor
InitStand ==
    /\ InitCommon
    /\ week = 1
    /\ teams \in {ts \in SeqsUpTo(StandTeams, MaxStand) : DistinctNames(ts)}
    /\ schedule = <<>>
    /\ boxscore = NoBoxscore

M3 == <<JMissing, JMissing, JMissing>>
M4 == <<JMissing, JMissing, JMissing, JMissing>>

NoRating == [k |-> "missing", other |-> FALSE, proj |-> M4]

\* a ratings entry holding ranking keys and the four projection keys
Rating(proj) == [k |-> "dict", other |-> TRUE, proj |-> proj]

NoRatings == [k |-> "missing", at |-> [w \in {0} \cup Weeks |-> NoRating]]

\* a ratings dict keyed by week; key "0" is the season entry
Ratings(w, r) ==
    [k |-> "dict", at |-> [[v \in {0} \cup Weeks |-> NoRating] EXCEPT ![w] = r]]

Stat(period, source, total) ==
    [scoringPeriodId |-> period, statSourceId |-> source,
     appliedTotal |-> total, appliedStatTotal |-> JMissing, points |-> JMissing]

\* a roster entry with a player and nothing else; totals and ppeTotals are
\* the values of appliedStatTotal, appliedTotal, points, totalPoints; direct
\* those of projectedPoints, projectedTotal, pointsProjected
NoEntry ==
    [dict |-> TRUE, playerPoolEntry |-> "dict", player |-> "dict",
     fullName |-> JMissing, name |-> JMissing,
     defaultPositionId |-> JMissing, lineupSlotId |-> JMissing,
     totals |-> M4, ppeTotals |-> M4,
     stats |-> [k |-> "missing", items |-> <<>>],
     appliedStats |-> [k |-> "missing", vals |-> <<>>],
     ratings |-> NoRatings, ppeRatings |-> NoRatings, direct |-> M3]

\* quarterback starter: entry-level total, projection in ratings of week 1
EntryQB ==
    [NoEntry EXCEPT !.fullName = Str(<<"QB1">>), !.defaultPositionId = Num(0),
        !.lineupSlotId = Num(0),
        !.totals = <<Num(20500), JMissing, JMissing, JMissing>>,
        !.ratings = Ratings(1, Rating(<<Num(18004), JMissing, JMissing, JMissing>>))]

\* running-back starter: zero total, projection in the pool entry's ratings
EntryRB ==
    [NoEntry EXCEPT !.fullName = Str(<<"RB1">>), !.defaultPositionId = Num(2),
        !.lineupSlotId = Num(2),
        !.totals = <<JNull, Num(0), JMissing, JMissing>>,
        !.ppeRatings = Ratings(1, Rating(<<JNull, JMissing, Num(12003), JMissing>>))]

\* flex starter: total in the week's actual stats, season projection of 0
EntryFlex ==
    [NoEntry EXCEPT !.name = Str(<<"FX1">>), !.defaultPositionId = Num(2),
        !.lineupSlotId = Num(LINEUP_SLOT_FLEX),
        !.stats = [k |-> "list",
                   items |-> <<Stat(JNull, Num(0), Num(5000)),
                               Stat(Num(1), Num(1), Num(9000)),
                               Stat(Num(1), Num(0), Num(11250))>>],
        !.ppeRatings = Ratings(0, Rating(<<JMissing, Num(0), JMissing, JMissing>>))]

\* entry with no slot id: total summed from appliedStats, no projection
EntryNoSlot ==
    [NoEntry EXCEPT !.fullName = Str(<<"NS1">>), !.defaultPositionId = Num(6),
        !.appliedStats = [k |-> "dict", vals |-> <<Num(3000), JNull, Num(1504)>>]]

\* bench player: pool-entry total, direct projection
EntryBench ==
    [NoEntry EXCEPT !.fullName = Str(<<"BN1">>), !.defaultPositionId = Num(4),
        !.lineupSlotId = Num(LINEUP_SLOT_BENCH),
        !.ppeTotals = <<JMissing, Num(7000), JMissing, JMissing>>,
        !.direct = <<Num(9000), JMissing, JMissing>>]

\* injured-reserve player with a projection
EntryIR ==
    [NoEntry EXCEPT !.fullName = Str(<<"IR1">>), !.defaultPositionId = Num(2),
        !.lineupSlotId = Num(LINEUP_SLOT_IR),
        !.direct = <<JMissing, Num(4000), JMissing>>]

\* malformed entries: not a dict; a null player
EntryNotDict == [NoEntry EXCEPT !.dict = FALSE]
EntryNullPlayer == [EntryQB EXCEPT !.player = "null"]

RosterEntries ==
    {EntryQB, EntryRB, EntryFlex, EntryNoSlot, EntryBench, EntryIR,
     EntryNotDict, EntryNullPlayer}

\* a side whose roster is under rosterForCurrentScoringPeriod
BoxSide(tid, pts, es) ==
    [Side(tid, pts) EXCEPT !.rosterForCurrentScoringPeriod = Roster(es)]

\* a side whose roster is under rosterForMatchupPeriod
BoxSideAlt(tid, pts, es) ==
    [Side(tid, pts) EXCEPT !.rosterForMatchupPeriod = Roster(es)]

Rosters == SeqsUpTo(RosterEntries, MaxRoster)

\* week 1 entries: one side's roster free, the other fixed
BoxEntries ==
    {Entry(Num(1), BoxSide(1, Num(110000), es),
                   BoxSide(2, Num(90000), <<EntryBench>>), Str(<<"HOME">>)) :
        es \in Rosters}
    \cup {Entry(Num(1), BoxSideAlt(3, Num(996), <<EntryQB, EntryBench>>),
                        BoxSide(4, Num(1004), es), JMissing) :
            es \in Rosters}
    \cup {Entry(Num(1), BoxSide(1, Num(80000), <<EntryIR, EntryRB>>), NoSide,
                JMissing)}

BoxFixed1 ==
    Entry(Num(1), BoxSide(5, Num(80000), <<EntryFlex>>),
                  BoxSideAlt(6, Num(80000), <<EntryNoSlot, EntryIR>>), JMissing)

BoxFixed2 ==
    Entry(Num(2), BoxSide(1, Num(70000), <<EntryQB>>),
                  BoxSide(2, Num(60000), <<EntryFlex>>), Str(<<"HOME">>))

BoxSchedules ==
    {<<>>}
    \cup {<<e>> : e \in BoxEntries}
    \cup {<<e, BoxFixed1>> : e \in BoxEntries}
    \cup {<<BoxFixed2, e>> : e \in BoxEntries}

\* inputs of the Roster / Player Aggregator: the scoreboard lists the same
\* entries as the boxscore
InitBox ==
    /\ InitCommon
    /\ week \in Weeks
    /\ teams = LeagueTeams
    /\ boxscore \in {NoBoxscore} \cup {Boxscore(sc) : sc \in BoxSchedules}
    /\ schedule = boxscore.schedule

\* a roster entry of a player at a position and a lineup slot, with an
\* entry-level total and a directly stored projection
Player(name, pos, slot, pts, proj) ==
    [NoEntry EXCEPT !.fullName = Str(<<name>>), !.defaultPositionId = Num(pos),
        !.lineupSlotId = Num(slot),
        !.totals = <<Num(pts), JMissing, JMissing, JMissing>>,
        !.direct = <<proj, JMissing, JMissing>>]

\* one team's week: its point total and its roster
\* projected 90.25 against 70.25 scored: 20 under exactly
TeamWeekA ==
    [pts |-> Num(70250),
     roster |-> <<Player("QA", POS_QB, 0, 25000, Num(60000)),
                  Player("KA", POS_K, 17, 10000, Num(30250)),
                  Player("RA", POS_RB, 2, 12000, JMissing),
                  Player("FA", POS_RB, LINEUP_SLOT_FLEX, 8000, Num(0)),
                  Player("BA", 4, LINEUP_SLOT_BENCH, 3000, Num(5000))>>]

\* the same totals as TeamWeekA, projected 90.26: 20.01 under
TeamWeekB ==
    [pts |-> Num(70250),
     roster |-> <<Player("QB", POS_QB, 0, 25000, Num(60000)),
                  Player("KB", POS_K, 17, 10000, Num(30260)),
                  Player("RB", POS_RB, 2, 12000, JMissing),
                  Player("FB", POS_RB, LINEUP_SLOT_FLEX, 8000, JMissing),
                  Player("BB", 4, LINEUP_SLOT_BENCH, 3000, JMissing)>>]

\* projected 18.004 against 18.01 scored; two quarterbacks level on points
TeamWeekC ==
    [pts |-> Num(18010),
     roster |-> <<Player("QC", POS_QB, 0, 30000, Num(18004)),
                  Player("QD", POS_QB, LINEUP_SLOT_FLEX, 30000, JMissing),
                  Player("TC", POS_TE, 6, 9000, JMissing),
                  Player("DC", POS_DST, 16, 7000, JMissing),
                  Player("BC", 4, LINEUP_SLOT_BENCH, 5000, JMissing),
                  Player("IC", 2, LINEUP_SLOT_IR, 1000, JMissing)>>]

\* no projection at all; a negative defence total
TeamWeekD ==
    [pts |-> Num(120500),
     roster |-> <<Player("KD", POS_K, 17, 10000, JMissing),
                  Player("RD", POS_RB, 2, 20000, JMissing),
                  Player("TD", POS_TE, 6, 9000, JMissing),
                  Player("DD", POS_DST, 16, -2000, JMissing),
                  Player("FD", 4, LINEUP_SLOT_FLEX, 8000, JMissing)>>]

\* projected 70.26 against 50.27 scored: 19.99 under; every projection else 0
TeamWeekE ==
    [pts |-> Num(50270),
     roster |-> <<Player("QE", POS_QB, 0, 25000, Num(70260)),
                  Player("KE", POS_K, 17, 4000, Num(0)),
                  Player("BE", 4, LINEUP_SLOT_BENCH, 0, Num(0))>>]

\* no total and an empty roster
TeamWeekF == [pts |-> JMissing, roster |-> <<>>]

\* every starter projected 0.0, 5.0 scored; no running back among the starters
TeamWeekG ==
    [pts |-> Num(5000),
     roster |-> <<Player("QG", POS_QB, 0, 3000, Num(0)),
                  Player("KG", POS_K, 17, 2000, Num(0)),
                  Player("BG", POS_RB, LINEUP_SLOT_BENCH, 9000, Num(4000))>>]

TeamWeeks ==
    {TeamWeekA, TeamWeekB, TeamWeekC, TeamWeekD, TeamWeekE, TeamWeekF,
     TeamWeekG}

ChalSide(tid, tw) == BoxSide(tid, tw.pts, tw.roster)

\* the game at place n of a week's schedule: teams 2n-1 (home) and 2n (away)
ChalGame(wk, n, h, a, flag) ==
    Entry(Num(wk), ChalSide(2 * n - 1, h), ChalSide(2 * n, a), flag)

\* schedules of a week: none, a game of another week, a game with no away
\* side, one game of every two team weeks, a flagged game, and two games
ChalSchedules(wk) ==
    {<<>>, <<ChalGame(wk + 1, 1, TeamWeekA, TeamWeekD, JMissing)>>,
     <<Entry(Num(wk), ChalSide(1, TeamWeekA), NoSide, JMissing)>>}
    \cup {<<ChalGame(wk, 1, h, a, JMissing)>> : h, a \in TeamWeeks}
    \cup {<<ChalGame(wk, 1, h, h, f)>> :
            h \in TeamWeeks, f \in {Str(<<"TIE">>), Str(<<"HOME">>)}}
    \cup {<<ChalGame(wk, 1, h, a, JMissing),
            ChalGame(wk, 2, TeamWeekC, TeamWeekC, Str(<<"AWAY">>))>> :
            h, a \in TeamWeeks}
    \cup {<<ChalGame(wk, 1, TeamWeekA, TeamWeekD, Str(<<"HOME">>)),
            ChalGame(wk, 2, h, a, JMissing)>> :
            h, a \in TeamWeeks}

\* a team with a season record
RecordTeam(id, word, wins, losses, ties, pf, pa) ==
    [NamedTeam(id, word) EXCEPT
        !.recWins = Num(wins), !.recLosses = Num(losses),
        !.recTies = Num(ties), !.points = Num(pf),
        !.recPointsAgainst = Num(pa)]

League4 ==
    <<RecordTeam(1, "A", 5, 3, 0, 1000000, 900000),
      RecordTeam(2, "B", 6, 2, 0, 950500, 900000),
      RecordTeam(3, "C", 5, 3, 1, 1000000, 850000),
      RecordTeam(4, "D", 2, 6, 0, 700000, 899990)>>

League7 ==
    League4 \o
    <<RecordTeam(5, "E", 6, 2, 0, 950500, 910000),
      RecordTeam(6, "F", 4, 4, 0, 800000, 910000),
      RecordTeam(7, "G", 0, 8, 0, 600004, 0)>>

Reverse(xs) == [i \in DOMAIN xs |-> xs[Len(xs) + 1 - i]]

ChalLeagues == {<<>>, League4, League7, Reverse(League4), Reverse(League7)}

\* weeks on both sides of the rule table's 1..17
FirstWeek == 0 - 1
LastWeek == 18

ChalWeeks == FirstWeek..LastWeek

\* inputs of the Weekly Challenge Engine and of the narrative: a week, a
\* league and the week's games; the boxscore view is hidden or lists the
\* scoreboard's games
InitChal ==
    /\ InitCommon
    /\ week \in ChalWeeks
    /\ \/ /\ teams = League4
          /\ schedule \in ChalSchedules(week)
       \/ /\ teams \in ChalLeagues
          /\ schedule = <<ChalGame(week, 1, TeamWeekA, TeamWeekB, JMissing)>>
    /\ boxscore \in {NoBoxscore, Boxscore(schedule)}

\* season records: wins, losses, ties, points for and against (thousandths)
PowerRecords ==
    {<<10, 3, 0, 1500000, 1200000>>, <<5, 0, 0, 100000, 0>>,
     <<6, 1, 1, 50000, 50000>>, <<5, 0, 2, 100000, 0>>,
     <<10, 3, 0, 100010, 0>>, <<2, 6, 0, 700000, 899990>>,
     <<0, 0, 0, 0, 0>>}

PowerTeams ==
    {RecordTeam(nm[1], nm[2], rc[1], rc[2], rc[3], rc[4], rc[5]) :
        nm \in {<<1, "A">>, <<2, "B">>, <<3, "C">>}, rc \in PowerRecords}

DistinctTeams(ts) == \A i, j \in DOMAIN ts : i # j => ts[i].id # ts[j].id

\* inputs of the power rankings: a league of teams with season records
InitPower ==
    /\ InitCommon
    /\ week = 1
    /\ teams \in {ts \in SeqsUpTo(PowerTeams, MaxStand) : DistinctTeams(ts)}
    /\ schedule = <<>>
    /\ boxscore = NoBoxscore

\* a season's schedule: games of weeks 1, 2, 3 and 8
SeasonSchedule ==
    <<ChalGame(1, 1, TeamWeekA, TeamWeekD, JMissing),
      ChalGame(2, 1, TeamWeekA, TeamWeekB, JMissing),
      ChalGame(3, 2, TeamWeekG, TeamWeekE, JMissing),
      ChalGame(8, 1, TeamWeekA, TeamWeekD, Str(<<"HOME">>))>>

\* the past weeks whose fetch may raise or exit
FaultWeeks == {2, 17}

Nets ==
    {[wk \in 1..MAX_CHALLENGE_WEEK |-> IF wk \in FaultWeeks THEN f[wk] ELSE "ok"] :
        f \in [FaultWeeks -> FetchEnds]}

\* inputs of the table of all weeks: a week, a season's payloads, and what
\* the fetches of the past weeks come to
InitWeekly ==
    /\ InitDerived /\ Fetched /\ MailIdle
    /\ week \in FirstWeek..(LastWeek + 1)
    /\ net \in Nets
    /\ teams \in {<<>>, League7}
    /\ schedule \in {<<>>, SeasonSchedule}
    /\ boxscore \in {NoBoxscore, Boxscore(schedule)}

-----------------------------------------------------------------------------
(* main(): the derivations in call order *)

SummarizeMatchups ==
    /\ pc = "start"
    /\ team_map' = BuildTeamMap(teams)
    /\ matchups' = summarize_matchups(schedule, teams, week)
    /\ pc' = "matchups"
    /\ UNCHANGED <<week, teams, schedule, boxscore, standings, week_rows,
                   challenge, power, next_challenge, narrative>>
    /\ UNCHANGED <<weekly_challenges, ioVars>>

ExtractStandings ==
    /\ pc = "matchups"
    /\ standings' = extract_standings(teams)
    /\ pc' = "standings"
    /\ UNCHANGED <<week, teams, schedule, boxscore, team_map, matchups, week_rows,
                   challenge, power, next_challenge, narrative>>
    /\ UNCHANGED <<weekly_challenges, ioVars>>

BuildWeekStats ==
    /\ pc = "standings"
    /\ week_rows' = build_week_stats_from_boxscore(boxscore, teams, week)
    /\ pc' = "week_rows"
    /\ UNCHANGED <<week, teams, schedule, boxscore, team_map, matchups, standings,
                   challenge, power, next_challenge, narrative>>
    /\ UNCHANGED <<weekly_challenges, ioVars>>

ComputeChallenge ==
    /\ pc = "week_rows"
    /\ challenge' = compute_week_challenge(week, matchups, standings, week_rows)
    /\ pc' = "challenge"
    /\ UNCHANGED <<week, teams, schedule, boxscore, team_map, matchups, standings,
                   week_rows, power, next_challenge, narrative>>
    /\ UNCHANGED <<weekly_challenges, ioVars>>

ComputePowerRankings ==
    /\ pc = "challenge"
    /\ power' = compute_power_rankings(standings)
    /\ pc' = "power"
    /\ UNCHANGED <<week, teams, schedule, boxscore, team_map, matchups, standings,
                   week_rows, challenge, next_challenge, narrative>>
    /\ UNCHANGED <<weekly_challenges, ioVars>>

DescribeUpcoming ==
    /\ pc = "power"
    /\ next_challenge' = describe_upcoming_challenge(week)
    /\ pc' = "upcoming"
    /\ UNCHANGED <<week, teams, schedule, boxscore, team_map, matchups, standings,
                   week_rows, challenge, power, narrative>>
    /\ UNCHANGED <<weekly_challenges, ioVars>>

\* weekly_challenges = build_weekly_challenges(season, week)
BuildWeeklyChallenges ==
    /\ pc = "upcoming"
    /\ IF WeeklyExits(week, net)
       THEN pc' = "exit" /\ UNCHANGED weekly_challenges
       ELSE /\ weekly_challenges' =
                    build_weekly_challenges(week, schedule, teams, boxscore, net)
            /\ pc' = "weekly"
    /\ UNCHANGED <<week, teams, schedule, boxscore, team_map, matchups, standings,
                   week_rows, challenge, power, next_challenge, narrative>>
    /\ UNCHANGED ioVars

BuildNarrative ==
    /\ pc = "weekly"
    /\ narrative' = build_narrative(matchups, week, week_rows)
    /\ pc' = "narrative"
    /\ UNCHANGED <<week, teams, schedule, boxscore, team_map, matchups, standings,
                   week_rows, challenge, power, next_challenge>>
    /\ UNCHANGED <<weekly_challenges, ioVars>>

Next ==
    \/ SummarizeMatchups \/ ExtractStandings \/ BuildWeekStats
    \/ ComputeChallenge \/ ComputePowerRankings \/ DescribeUpcoming
    \/ BuildWeeklyChallenges \/ BuildNarrative

SpecMatch == InitMatch /\ [][Next]_vars

SpecTeams == InitTeams /\ [][Next]_vars

SpecStand == InitStand /\ [][Next]_vars

SpecBox == InitBox /\ [][Next]_vars

SpecChal == InitChal /\ [][Next]_vars

SpecWeekly == InitWeekly /\ [][Next]_vars

-----------------------------------------------------------------------------
(* ESPN data fetching *)

\* len(hosts) and the attempts made on one host for the scoreboard
HostCount == 2
MaxAttempts == 3

\* what a request comes to: a response with a status and a Content-Type
\* header, or an exception out of session.get or r.json
Resp(status, ctype) == [k |-> "resp", status |-> status, ctype |-> ctype]
Raised == [k |-> "raise", status |-> 0, ctype |-> <<>>]

Responses ==
    {Resp(200, <<"application/json">>),
     Resp(200, <<"Application/JSON", ";charset=UTF-8">>),
     Resp(200, <<"text/html">>), Resp(200, <<>>),
     Resp(500, <<"application/json">>), Resp(404, <<"text/html">>),
     Raised}

\* r.status_code == 200 and
\* r.headers.get("Content-Type", "").lower().startswith("application/json")
IsJson200(r) ==
    /\ r.status = 200
    /\ r.ctype # <<>> /\ Lower(r.ctype)[1] = "application/json"

Req(view, host, ok) == [view |-> view, host |-> host, ok |-> ok]

At(phase, host, i) == [phase |-> phase, host |-> host, i |-> i]

\* the scoreboard's own teams: no key, an empty list, or the league's teams
SbTeams == {"absent", "empty", "list"}

Servers ==
    {[sb_teams |-> t, schedule |-> sch, teams |-> League4,
      boxscore |-> Boxscore(sch)] :
        t \in SbTeams,
        sch \in {<<>>, <<ChalGame(1, 1, TeamWeekA, TeamWeekD, JMissing)>>}}

\* main() calls espn_fetch_jsons: no payload yet, no request made
InitFetch ==
    /\ pc = "fetch" /\ NothingDerived /\ MailIdle
    /\ week = 1
    /\ teams = <<>> /\ schedule = <<>> /\ boxscore = NoBoxscore
    /\ net = AllOk
    /\ server \in Servers
    /\ out = NoOut
    /\ fetch = At("scoreboard", 1, 0)
    /\ http = <<>>

Derived ==
    <<team_map, matchups, standings, week_rows, challenge, power,
      next_challenge, narrative, weekly_challenges>>

\* one scoreboard request: the first success ends both loops, a miss moves
\* to the next attempt, then to the next host, and after the last host
\* fail() exits; an exception is caught nowhere
ScoreboardAttempt ==
    /\ pc = "fetch" /\ fetch.phase = "scoreboard"
    /\ \E r \in Responses :
          /\ http' = Append(http, Req("mMatchupScore", fetch.host,
                                      r.k = "resp" /\ IsJson200(r)))
          /\ IF r.k = "raise"
             THEN pc' = "raised" /\ UNCHANGED <<out, fetch>>
             ELSE IF IsJson200(r)
             THEN /\ out' = [out EXCEPT
                                !.scoreboard = "json",
                                !.teams = IF server.sb_teams = "list"
                                          THEN "list" ELSE "none"]
                  /\ fetch' = At(IF server.sb_teams = "list"
                                 THEN "boxscore" ELSE "teams", 1, 0)
                  /\ pc' = pc
             ELSE IF fetch.i + 1 < MaxAttempts
             THEN /\ fetch' = At("scoreboard", fetch.host, fetch.i + 1)
                  /\ UNCHANGED <<pc, out>>
             ELSE IF fetch.host < HostCount
             THEN /\ fetch' = At("scoreboard", fetch.host + 1, 0)
                  /\ UNCHANGED <<pc, out>>
             ELSE /\ pc' = "exit"
                  /\ UNCHANGED <<out, fetch>>
    /\ UNCHANGED <<week, teams, schedule, boxscore, Derived, net, server, mailVars>>

\* one mTeam request, made when the scoreboard brought no teams
TeamsAttempt ==
    /\ pc = "fetch" /\ fetch.phase = "teams"
    /\ \E r \in Responses :
          /\ http' = Append(http, Req("mTeam", fetch.host,
                                      r.k = "resp" /\ IsJson200(r)))
          /\ IF r.k = "raise"
             THEN pc' = "raised" /\ UNCHANGED <<out, fetch>>
             ELSE IF IsJson200(r)
             THEN /\ out' = [out EXCEPT !.teams = "list"]
                  /\ fetch' = At("boxscore", 1, 0)
                  /\ pc' = pc
             ELSE IF fetch.host < HostCount
             THEN /\ fetch' = At("teams", fetch.host + 1, 0)
                  /\ UNCHANGED <<pc, out>>
             ELSE /\ fetch' = At("boxscore", 1, 0)
                  /\ UNCHANGED <<pc, out>>
    /\ UNCHANGED <<week, teams, schedule, boxscore, Derived, net, server, mailVars>>

\* one mMatchup request
BoxscoreAttempt ==
    /\ pc = "fetch" /\ fetch.phase = "boxscore"
    /\ \E r \in Responses :
          /\ http' = Append(http, Req("mMatchup", fetch.host,
                                      r.k = "resp" /\ IsJson200(r)))
          /\ IF r.k = "raise"
             THEN pc' = "raised" /\ UNCHANGED <<out, fetch>>
             ELSE IF IsJson200(r)
             THEN /\ out' = [out EXCEPT !.boxscore = "json"]
                  /\ fetch' = At("return", 0, 0)
                  /\ pc' = pc
             ELSE IF fetch.host < HostCount
             THEN /\ fetch' = At("boxscore", fetch.host + 1, 0)
                  /\ UNCHANGED <<pc, out>>
             ELSE /\ fetch' = At("return", 0, 0)
                  /\ UNCHANGED <<pc, out>>
    /\ UNCHANGED <<week, teams, schedule, boxscore, Derived, net, server, mailVars>>

\* return out; main() takes scoreboard, teams and boxscore from it
FetchReturn ==
    /\ pc = "fetch" /\ fetch.phase = "return"
    /\ schedule' = server.schedule
    /\ teams' = IF out.teams = "list" THEN server.teams ELSE <<>>
    /\ boxscore' = IF out.boxscore = "json" THEN server.boxscore ELSE NoBoxscore
    /\ fetch' = At("returned", 0, 0)
    /\ pc' = "start"
    /\ UNCHANGED <<week, Derived, net, server, out, http, mailVars>>

FetchNext ==
    \/ ScoreboardAttempt \/ TeamsAttempt \/ BoxscoreAttempt \/ FetchReturn
    \/ Next

SpecFetch == InitFetch /\ [][FetchNext]_vars

SpecPower == InitPower /\ [][Next]_vars

-----------------------------------------------------------------------------
(* Properties of the Matchup Summarizer *)

Ran == pc # "start"

\* the schedule entries of the requested week that have both sides
KeptIdx ==
    {i \in DOMAIN schedule :
        /\ schedule[i].matchupPeriodId.k = "num"
        /\ schedule[i].matchupPeriodId.n = week
        /\ schedule[i].home.has /\ schedule[i].away.has}

\* position in the output of the record of kept entry i
Rank(i) == Cardinality({j \in KeptIdx : j <= i})

\* a side's point total, a missing or null total counted as 0
PtsOf(side) == IF side.totalPoints.k = "num" THEN side.totalPoints.n ELSE 0

FlagAbsent(m) == m.winner.k \in {"missing", "null"}

\* some kept entry and its record satisfy P
SomeKept(P(_, _)) ==
    \E i \in KeptIdx :
        Rank(i) \in DOMAIN matchups /\ P(schedule[i], matchups[Rank(i)])

\* every kept entry has a record, and they satisfy P
EveryKept(P(_, _)) ==
    \A i \in KeptIdx :
        Rank(i) \in DOMAIN matchups /\ P(schedule[i], matchups[Rank(i)])

\* C1: winner is 'tie' only when the two point totals are exactly equal and
\* the winner flag is present and not 'UNDECIDED'; with equal points and a
\* flag that is missing, null or 'UNDECIDED', winner is 'undecided'.
C1_TieOnlyWhenFlagged ==
    Ran => EveryKept(LAMBDA m, r :
        /\ r.winner = "tie" =>
              /\ PtsOf(m.home) = PtsOf(m.away)
              /\ ~FlagAbsent(m)
              /\ m.winner # Str(<<"UNDECIDED">>)
        /\ (/\ PtsOf(m.home) = PtsOf(m.away)
            /\ (FlagAbsent(m) \/ m.winner = Str(<<"UNDECIDED">>)))
              => r.winner = "undecided")

C1_Witness ==
    /\ Ran
    /\ SomeKept(LAMBDA m, r : m.winner = Str(<<"TIE">>) /\ r.winner = "tie")
    /\ SomeKept(LAMBDA m, r : FlagAbsent(m) /\ r.winner = "undecided")

MorePoints(m) == IF PtsOf(m.home) > PtsOf(m.away) THEN "home" ELSE "away"

\* C2 as stated: with differing points, flag 'HOME' gives home and flag
\* 'AWAY' gives away whichever side has more points, and any other flag
\* value, or no flag, gives the side with strictly more points.
C2_Original ==
    Ran => EveryKept(LAMBDA m, r :
        PtsOf(m.home) # PtsOf(m.away) =>
            /\ m.winner = Str(<<"HOME">>) => r.winner = "home"
            /\ m.winner = Str(<<"AWAY">>) => r.winner = "away"
            /\ m.winner \notin {Str(<<"HOME">>), Str(<<"AWAY">>)}
                  => r.winner = MorePoints(m))

\* the flag as the comparison sees it: upper-cased, absent as 'UNDECIDED'
FlagUpper(m) == IF m.winner.k = "str" THEN Upper(m.winner.s) ELSE <<>>

\* C2 amended: the flag is compared after upper-casing: with differing
\* points, a flag that upper-cases to 'HOME' (resp. 'AWAY') gives home
\* (resp. away) whichever side has more points, and any other flag, or no
\* flag, gives the side with strictly more points.
C2_FlagHonouredCaseInsensitive ==
    Ran => EveryKept(LAMBDA m, r :
        PtsOf(m.home) # PtsOf(m.away) =>
            /\ FlagUpper(m) = <<"HOME">> => r.winner = "home"
            /\ FlagUpper(m) = <<"AWAY">> => r.winner = "away"
            /\ FlagUpper(m) \notin {<<"HOME">>, <<"AWAY">>}
                  => r.winner = MorePoints(m))

C2_Witness ==
    /\ Ran
    /\ SomeKept(LAMBDA m, r :
          /\ m.winner = Str(<<"HOME">>)
          /\ PtsOf(m.home) < PtsOf(m.away)
          /\ r.winner = "home")
    /\ SomeKept(LAMBDA m, r :
          /\ m.winner = Str(<<"TIE">>)
          /\ PtsOf(m.home) < PtsOf(m.away)
          /\ r.winner = "away")

\* C3 as stated: abs_margin equals |home_pts - away_pts|, read either on the
\* record's own home_pts and away_pts or on the unrounded totals.
C3_Original ==
    Ran => EveryKept(LAMBDA m, r :
        \/ r.abs_margin = Abs(r.home_pts - r.away_pts)
        \/ r.abs_margin = Abs(PtsOf(m.home) - PtsOf(m.away)))

\* C3 amended: abs_margin is |home - away| of the unrounded totals (missing
\* or null counted as 0) rounded to two decimals, whatever the winner; it is
\* within 0.01 of the difference of the record's rounded home_pts, away_pts.
C3_MarginRounded ==
    Ran => EveryKept(LAMBDA m, r :
        /\ r.abs_margin = Round2(Abs(PtsOf(m.home) - PtsOf(m.away)))
        /\ r.abs_margin >= 0
        /\ Abs(r.abs_margin - Abs(r.home_pts - r.away_pts)) <= 10)

C3_Witness ==
    /\ Ran
    /\ SomeKept(LAMBDA m, r :
          /\ m.home.totalPoints = JNull
          /\ r.winner = "away"
          /\ r.abs_margin = Round2(PtsOf(m.away)))
    /\ SomeKept(LAMBDA m, r :
          r.winner \in {"tie", "undecided"} /\ r.abs_margin = 0)

\* C4: the output holds one record per schedule entry of the requested week
\* that has both sides, in source order, and nothing else; no matching
\* entry gives the empty list.
C4_KeptSubsequence ==
    Ran =>
        /\ Len(matchups) = Cardinality(KeptIdx)
        /\ EveryKept(LAMBDA m, r :
              /\ r.home_id = m.home.teamId
              /\ r.away_id = m.away.teamId
              /\ r.home_pts = Round2(PtsOf(m.home))
              /\ r.away_pts = Round2(PtsOf(m.away)))

C4_Witness ==
    /\ Ran
    /\ Len(schedule) = 2
    /\ KeptIdx = {2}
    /\ schedule[1].matchupPeriodId = Num(week)
    /\ ~schedule[1].away.has
    /\ Len(matchups) = 1
    /\ matchups[1].home_id = schedule[2].home.teamId

-----------------------------------------------------------------------------
(* Properties of the Team Directory *)

\* the display name the documented fallback order gives a raw team record
NameByOrder(t) ==
    LET trimmed(v) == IF v.k = "str" THEN Strip(v.s) ELSE <<>>
        loc == trimmed(t.location)
        nick == trimmed(t.nickname)
    IN  CASE loc # <<>> \/ nick # <<>> -> Strip(loc \o <<" ">> \o nick)
          [] loc = <<>> /\ nick = <<>> /\ trimmed(t.name) # <<>> ->
                trimmed(t.name)
          [] loc = <<>> /\ nick = <<>> /\ trimmed(t.name) = <<>>
                /\ trimmed(t.abbrev) # <<>> -> trimmed(t.abbrev)
          [] OTHER -> <<"Team", " ", ToString(t.id.n)>>

HasId(t) == t.id.k = "num"

\* C5: every raw team record with a non-null id has exactly one map entry,
\* non-empty, named by the fallback order; records with no id have none;
\* looking up an unknown id yields 'Team {id}'.
C5_TeamDirectory ==
    Ran =>
        /\ DOMAIN team_map = {teams[i].id.n : i \in {j \in DOMAIN teams : HasId(teams[j])}}
        /\ \A i \in DOMAIN teams :
              HasId(teams[i]) =>
                  /\ team_map[teams[i].id.n] # <<>>
                  /\ team_map[teams[i].id.n] = NameByOrder(teams[i])
        /\ EveryKept(LAMBDA m, r :
              /\ r.home = IF m.home.teamId.n \in DOMAIN team_map
                          THEN team_map[m.home.teamId.n]
                          ELSE <<"Team", " ", ToString(m.home.teamId.n)>>
              /\ r.away = IF m.away.teamId.n \in DOMAIN team_map
                          THEN team_map[m.away.teamId.n]
                          ELSE <<"Team", " ", ToString(m.away.teamId.n)>>)

C5_Witness ==
    /\ Ran
    /\ Len(teams) = 2
    /\ ~HasId(teams[1])
    /\ HasId(teams[2])
    /\ teams[2].id = Num(7)
    /\ team_map = (7 :> <<"Geno", " ", "Squad">>)
    /\ matchups[1].home = <<"Geno", " ", "Squad">>
    /\ matchups[1].away = <<"Team", " ", "9">>

-----------------------------------------------------------------------------
(* Properties of the Standings Extractor *)

StandRan == pc \notin {"start", "matchups"}

\* the input position of the team a standings row was built from
InputPos(row) ==
    CHOOSE i \in DOMAIN teams : _team_display_name(teams[i]) = row.name

RowNames(rows) == [i \in DOMAIN rows |-> rows[i].name]

ExampleA ==
    [NoTeam EXCEPT !.name = Str(<<"A">>), !.id = Num(1),
                   !.recWins = Num(5), !.points = Num(100000)]

ExampleB ==
    [NoTeam EXCEPT !.name = Str(<<"B">>), !.id = Num(2),
                   !.recWins = Num(5), !.recTies = Num(1),
                   !.recPointsAgainst = Num(50004), !.points = JDict,
                   !.pointsScored = Num(120000)]

ExampleC ==
    [NoTeam EXCEPT !.name = Str(<<"C">>), !.recWins = Num(3),
                   !.stat0 = Num(200000)]

\* C6: rows are ordered by wins descending, then points_for descending, and
\* rows equal on both keep their input order; A(5,100), B(5,120), C(3,200)
\* come out as [B, A, C]; ties and points_against play no part.
C6_StandingsOrder ==
    StandRan =>
        /\ \A p, q \in DOMAIN standings :
              p < q =>
                  \/ standings[p].wins > standings[q].wins
                  \/ /\ standings[p].wins = standings[q].wins
                     /\ standings[p].points_for > standings[q].points_for
                  \/ /\ standings[p].wins = standings[q].wins
                     /\ standings[p].points_for = standings[q].points_for
                     /\ InputPos(standings[p]) < InputPos(standings[q])
        /\ teams = <<ExampleA, ExampleB, ExampleC>>
              => RowNames(standings) = <<<<"B">>, <<"A">>, <<"C">>>>

\* two rows equal on (wins, points_for) but not on ties keep input order
C6_Witness ==
    /\ StandRan
    /\ Len(standings) = 3
    /\ RowNames(standings) = <<<<"B">>, <<"A">>, <<"C">>>>
    /\ standings[2].wins = standings[3].wins
    /\ standings[2].points_for = standings[3].points_for
    /\ standings[2].ties # standings[3].ties
    /\ InputPos(standings[1]) = 2
    /\ InputPos(standings[2]) = 1

\* C7 as stated: wins, losses and ties come from record.overall whenever it
\* holds them, and from overallWins / overallLosses / overallTies only when
\* it does not.
C7_PrimaryFieldFirst ==
    StandRan =>
        \A p \in DOMAIN standings :
            LET t == teams[InputPos(standings[p])]
                pick(primary, fallback) ==
                    IF primary.k = "num" THEN primary.n
                    ELSE IF fallback.k = "num" THEN fallback.n ELSE 0
            IN  /\ standings[p].wins = pick(t.recWins, t.overallWins)
                /\ standings[p].losses = pick(t.recLosses, t.overallLosses)
                /\ standings[p].ties = pick(t.recTies, t.overallTies)

\* C8: one row per input team record, none dropped or duplicated; a record
\* with no record or points fields gets zero counts and 0.0 points.
C8_OneRowPerTeam ==
    StandRan =>
        /\ Len(standings) = Len(teams)
        /\ \A i \in DOMAIN teams :
              LET mine == {p \in DOMAIN standings :
                              standings[p].name = _team_display_name(teams[i])}
              IN  /\ Cardinality(mine) = 1
                  /\ [teams[i] EXCEPT !.name = JMissing, !.id = JMissing] = NoTeam
                        => \A p \in mine :
                              /\ standings[p].wins = 0
                              /\ standings[p].losses = 0
                              /\ standings[p].ties = 0
                              /\ standings[p].points_for = 0
                              /\ standings[p].points_against = 0

C8_Witness ==
    /\ StandRan
    /\ Len(teams) = 2
    /\ teams[1] = NoTeam
    /\ teams[2].id # JMissing
    /\ Len(standings) = 2
    /\ standings[2].name = <<"Team">>
    /\ standings[2].wins = 0
    /\ standings[2].points_for = 0

-----------------------------------------------------------------------------
(* Properties of the Roster / Player Aggregator *)

BoxRan == pc = "week_rows" /\ week_rows.k = "list"

\* the boxscore schedule entries of the requested week
BoxKept ==
    {i \in DOMAIN boxscore.schedule :
        /\ boxscore.schedule[i].matchupPeriodId.k = "num"
        /\ boxscore.schedule[i].matchupPeriodId.n = week}

BoxRank(i) == Cardinality({j \in BoxKept : j <= i})

\* the raw roster entries of a side, under either nesting
RawEntries(side) ==
    IF side.rosterForCurrentScoringPeriod.k = "dict"
    THEN side.rosterForCurrentScoringPeriod.entries
    ELSE side.rosterForMatchupPeriod.entries

\* every side of every kept entry has its row, and they satisfy P
EverySide(P(_, _)) ==
    \A i \in BoxKept :
        /\ 2 * BoxRank(i) \in DOMAIN week_rows.rows
        /\ P(boxscore.schedule[i].home, week_rows.rows[2 * BoxRank(i) - 1])
        /\ P(boxscore.schedule[i].away, week_rows.rows[2 * BoxRank(i)])

SomeRow(P(_)) == \E i \in DOMAIN week_rows.rows : P(week_rows.rows[i])

OnBenchSlot(x) == x.slotId \in {Num(20), Num(21)}

OnStarterSlot(x) == ~OnBenchSlot(x)

\* C9: a parsed roster entry is in bench iff its lineupSlotId is 20 or 21 and
\* in starters otherwise (slot 23 and a missing slot id included); the two
\* lists are disjoint, cover the parsed entries and keep the roster order.
C9_BenchPartition ==
    BoxRan => EverySide(LAMBDA side, row :
        LET parsed == parse_entries(RawEntries(side), week)
        IN  /\ row.bench = SelectSeq(parsed, OnBenchSlot)
            /\ row.starters = SelectSeq(parsed, OnStarterSlot)
            /\ Len(row.bench) + Len(row.starters) = Len(parsed)
            /\ \A j \in DOMAIN row.starters : OnStarterSlot(row.starters[j])
            /\ \A j \in DOMAIN row.bench : OnBenchSlot(row.bench[j]))

C9_Witness ==
    /\ BoxRan
    /\ SomeRow(LAMBDA row :
          /\ Len(row.starters) = 1 /\ row.starters[1].slotId = Num(23)
          /\ Len(row.bench) = 1 /\ row.bench[1].slotId = Num(21))
    /\ SomeRow(LAMBDA row :
          /\ Len(row.starters) = 1 /\ row.starters[1].slotId = JNull
          /\ Len(row.bench) = 1)

HasProj(x) == x.proj.k = "num"

\* the sum of the projections of the starters that have one
StarterProjSum(row) ==
    LET F[i \in 0..Len(row.starters)] ==
            IF i = 0 THEN 0
            ELSE F[i - 1] + (IF HasProj(row.starters[i])
                             THEN row.starters[i].proj.n ELSE 0)
    IN  F[Len(row.starters)]

NoStarterProj(row) == \A j \in DOMAIN row.starters : ~HasProj(row.starters[j])

\* C10 as stated: proj is absent iff no starter has a projection, and
\* otherwise equals the sum of the starters' projections.
C10_Original ==
    BoxRan => \A i \in DOMAIN week_rows.rows :
        LET row == week_rows.rows[i]
        IN  /\ row.proj = JNull <=> NoStarterProj(row)
            /\ ~NoStarterProj(row) => row.proj = Num(StarterProjSum(row))

\* C10 amended: proj is absent iff no starter has a projection, and
\* otherwise equals the sum of the starters' projections rounded to two
\* decimals; bench projections never contribute, and starters all
\* projected 0 give proj = 0, not absent.
C10_ProjRoundedSum ==
    BoxRan => \A i \in DOMAIN week_rows.rows :
        LET row == week_rows.rows[i]
        IN  /\ row.proj = JNull <=> NoStarterProj(row)
            /\ ~NoStarterProj(row) =>
                  row.proj = Num(Round2(StarterProjSum(row)))

C10_Witness ==
    /\ BoxRan
    /\ SomeRow(LAMBDA row :
          /\ row.starters # <<>>
          /\ \A j \in DOMAIN row.starters : row.starters[j].proj = Num(0)
          /\ row.proj = Num(0))
    /\ SomeRow(LAMBDA row :
          /\ row.starters = <<>>
          /\ \E j \in DOMAIN row.bench : HasProj(row.bench[j])
          /\ row.proj = JNull)

\* the display name the rows give a side: its team's, or 'Team {id}'
SideName(side) ==
    IF side.teamId.k = "num" /\ side.teamId.n \in DOMAIN team_map
    THEN team_map[side.teamId.n]
    ELSE <<"Team", " ", IdText(Get(side.teamId))>>

\* C11: build_week_stats_from_boxscore returns absent iff there is no
\* boxscore payload; with a payload it returns exactly two rows per schedule
\* entry of the requested week, the home row immediately followed by the
\* away row, in schedule order, and the empty list when no entry matches.
C11_TwoRowsPerEntry ==
    pc = "week_rows" =>
        /\ week_rows.k = "none" <=> boxscore.k # "dict"
        /\ week_rows.k = "none" => week_rows.rows = <<>>
        /\ week_rows.k = "list" =>
              /\ Len(week_rows.rows) = 2 * Cardinality(BoxKept)
              /\ BoxKept = {} => week_rows.rows = <<>>
              /\ \A i \in BoxKept :
                    LET m == boxscore.schedule[i]
                        h == week_rows.rows[2 * BoxRank(i) - 1]
                        a == week_rows.rows[2 * BoxRank(i)]
                    IN  /\ h.team = SideName(m.home) /\ h.opp = SideName(m.away)
                        /\ a.team = SideName(m.away) /\ a.opp = SideName(m.home)
                        /\ h.pts = Round2(PtsOf(m.home)) /\ h.opp_pts = a.pts
                        /\ a.pts = Round2(PtsOf(m.away)) /\ a.opp_pts = h.pts

\* two entries of the week after one another: four rows, home then away
C11_Witness ==
    /\ BoxRan
    /\ Len(boxscore.schedule) = 2
    /\ BoxKept = {1, 2}
    /\ Len(week_rows.rows) = 4
    /\ week_rows.rows[1].team = <<"A">>
    /\ week_rows.rows[2].team = <<"B">>
    /\ week_rows.rows[3].team = <<"Team", " ", "5">>
    /\ week_rows.rows[4].team = <<"Team", " ", "6">>

-----------------------------------------------------------------------------
(* Properties of the Weekly Challenge Engine *)

ChalRan == pc \in {"challenge", "power", "upcoming", "weekly", "narrative"}

\* the weeks whose rule reads the week rows
RowWeeks == {2, 3, 6, 7, 10, 11, 12, 15, 16}

\* C12: compute_week_challenge returns absent for every week outside 1..17,
\* and for every week whose rule reads week_rows when week_rows is absent or
\* empty; for any week and inputs it returns absent or a result.
C12_AbsentOutsideTable ==
    ChalRan =>
        /\ week \notin 1..17 => challenge = NoChallenge
        /\ (week \in RowWeeks /\ (week_rows.k = "none" \/ week_rows.rows = <<>>))
              => challenge = NoChallenge
        /\ \/ challenge = NoChallenge
           \/ /\ challenge.k = "result"
              /\ challenge.winner # <<>>
              /\ challenge.subtitle # ""

\* week 0 with matchups, standings and week rows at hand: no result
C12_Witness ==
    /\ ChalRan
    /\ week = 0
    /\ Len(matchups) = 2
    /\ Len(standings) = 4
    /\ week_rows.k = "list" /\ Len(week_rows.rows) = 4
    /\ challenge = NoChallenge

\* a standings row is not below another on (wins, points_for)
NotBelow(a, b) ==
    \/ a.wins > b.wins
    \/ a.wins = b.wins /\ a.points_for >= b.points_for

\* C13: compute_week_challenge(9, ...) returns absent when standings is
\* empty, and otherwise its winner is the name of the first standings row,
\* the team with the greatest (wins, points_for).
C13_FirstPlaceWeek9 ==
    (ChalRan /\ week = 9) =>
        /\ standings = <<>> => challenge = NoChallenge
        /\ standings # <<>> =>
              /\ challenge.k = "result"
              /\ challenge.winner = standings[1].name
              /\ \A j \in DOMAIN standings : NotBelow(standings[1], standings[j])
              /\ \E i \in DOMAIN teams :
                    /\ _team_display_name(teams[i]) = challenge.winner
                    /\ \A j \in DOMAIN teams :
                          NotBelow(StandingsRow(teams[i]), StandingsRow(teams[j]))

\* the winner is neither the first team of the input nor the one with the
\* most points for
C13_Witness ==
    /\ ChalRan /\ week = 9
    /\ teams = League4
    /\ challenge.k = "result"
    /\ challenge.winner = <<"B">>
    /\ challenge.subtitle = "First place overall (after 9 weeks)"
    /\ \E j \in DOMAIN standings :
          standings[j].points_for > standings[1].points_for

UpcomingRan == pc \in {"upcoming", "weekly", "narrative"}

\* C14: get_challenge_title_by_week returns a title for exactly the weeks 1
\* through 17 and absent for every other integer (0, 18, negatives); week 1
\* gives 'Highest scoring team' and week 18 gives absent.  The title asked
\* for is that of week + 1.
C14_TitlesOneToSeventeen ==
    UpcomingRan =>
        /\ next_challenge.k = "dict" <=> (week + 1) \in 1..17
        /\ next_challenge.k # "dict" => next_challenge = NoUpcoming
        /\ next_challenge.k = "dict" =>
              /\ next_challenge.next_week = week + 1
              /\ next_challenge.subtitle # ""
        /\ week + 1 = 1 => next_challenge.subtitle = "Highest scoring team"
        /\ week + 1 \in {0, 18} => next_challenge = NoUpcoming

C14_Witness ==
    /\ UpcomingRan
    /\ week = 0
    /\ next_challenge.k = "dict"
    /\ next_challenge.subtitle = "Highest scoring team"

\* a candidate of a rule: the team it would name, its player if the rule
\* names one, and its selection key
Cand(team, player, key) == [team |-> team, player |-> player, key |-> key]

RECURSIVE SideCands(_)
SideCands(ms) ==
    IF ms = <<>> THEN <<>>
    ELSE <<Cand(Head(ms).home, <<>>, Head(ms).home_pts),
           Cand(Head(ms).away, <<>>, Head(ms).away_pts)>>
         \o SideCands(Tail(ms))

RECURSIVE PlayerCands(_, _)
PlayerCands(rows, list) ==
    IF rows = <<>> THEN <<>>
    ELSE [j \in DOMAIN Head(rows)[list] |->
             [team |-> Head(rows).team, player |-> Head(rows)[list][j].name,
              key |-> Head(rows)[list][j].points,
              posId |-> Head(rows)[list][j].posId,
              slotId |-> Head(rows)[list][j].slotId]]
         \o PlayerCands(Tail(rows), list)

AtPos(c, pos) == c.posId = Num(pos)

\* the projected total the week-12 rule sets against a row's points: the sum
\* of its starters' non-zero projections
CountedProj(p) == p.proj.k = "num" /\ p.proj.n # 0

ProjTotal(row) ==
    LET F[i \in 0..Len(row.starters)] ==
            IF i = 0 THEN 0
            ELSE F[i - 1] + (IF CountedProj(row.starters[i])
                             THEN row.starters[i].proj.n ELSE 0)
    IN  F[Len(row.starters)]

HasCountedProj(row) == \E j \in DOMAIN row.starters : CountedProj(row.starters[j])

\* the candidates of the week's rule in iteration order, for the rules that
\* select by a greatest or a least key
TieCands(wk) ==
    LET st == PlayerCands(week_rows.rows, "starters")
        decided == SelectSeq(matchups, LAMBDA m : m.winner \in {"home", "away"})
    IN  CASE wk \in {1, 14} -> SideCands(matchups)
          [] wk = 2 -> st
          [] wk = 3 -> PlayerCands(week_rows.rows, "bench")
          [] wk \in {4, 5} ->
                [i \in DOMAIN decided |->
                    Cand(IF decided[i].winner = "home" THEN decided[i].home
                         ELSE decided[i].away, <<>>, decided[i].abs_margin)]
          [] wk = 6 -> SelectSeq(st, LAMBDA c : AtPos(c, 17))
          [] wk = 7 -> SelectSeq(st, LAMBDA c : AtPos(c, 0))
          [] wk = 8 ->
                [i \in DOMAIN decided |->
                    IF decided[i].winner = "home"
                    THEN Cand(decided[i].away, <<>>, decided[i].away_pts)
                    ELSE Cand(decided[i].home, <<>>, decided[i].home_pts)]
          [] wk = 10 -> SelectSeq(st, LAMBDA c : AtPos(c, 16))
          [] wk = 11 ->
                [i \in DOMAIN week_rows.rows |->
                    Cand(week_rows.rows[i].team, <<>>, RBTotal(week_rows.rows[i]))]
          [] wk = 12 ->
                LET proj == SelectSeq(week_rows.rows, HasCountedProj)
                IN  [i \in DOMAIN proj |->
                        Cand(proj[i].team, <<>>,
                             Abs(proj[i].pts - ProjTotal(proj[i])))]
          [] wk = 13 ->
                [i \in DOMAIN standings |->
                    Cand(standings[i].name, <<>>, standings[i].points_against)]
          [] wk = 15 -> SelectSeq(st, LAMBDA c : c.slotId = Num(23))
          [] wk = 16 -> SelectSeq(st, LAMBDA c : AtPos(c, 6))

TieWeeks == (1..8) \cup (10..16)

\* the candidate the result names
IsWinner(c) ==
    c.team = challenge.winner /\ c.player = challenge.detail.player

\* the winner is a candidate, and no candidate before it has its key
FirstAmongEqual(wk) ==
    LET cs == TieCands(wk)
    IN  \E w \in DOMAIN cs :
            /\ IsWinner(cs[w])
            /\ \A j \in 1..(w - 1) : cs[j].key # cs[w].key

\* C15: in every challenge rule that selects by a maximum or minimum key,
\* when two or more candidates have exactly the same key the winner is the
\* first one in iteration order: earlier matchup or week row before later,
\* home side before away side, earlier starter before later within a row,
\* earlier standings row before later.
C15_FirstAmongEqual ==
    (ChalRan /\ week \in TieWeeks /\ challenge.k = "result")
        => FirstAmongEqual(week)

\* the same, week 12 left aside
FirstAmongEqualExceptWeek12 ==
    (ChalRan /\ week \in TieWeeks \ {12} /\ challenge.k = "result")
        => FirstAmongEqual(week)

-----------------------------------------------------------------------------
(* Properties of the power rankings *)

PowerRan == pc \in {"power", "upcoming", "weekly", "narrative"}

\* the position in standings of the row a power row was built from
StandPos(row) == CHOOSE i \in DOMAIN standings : standings[i].name = row.name

\* 2*wins - losses + (points_for - points_against)/100 of a standings row,
\* in units of 0.00001
ExactScore(r) ==
    200000 * r.wins - 100000 * r.losses + (r.points_for - r.points_against)

C17_PowerOrder ==
    PowerRan =>
        /\ Len(power) = Len(standings)
        /\ \A i \in DOMAIN standings :
              Cardinality({p \in DOMAIN power :
                              power[p].name = standings[i].name}) = 1
        /\ \A p \in DOMAIN power : power[p].rank = p
        /\ \A p, q \in DOMAIN power :
              p < q =>
                  \/ power[p].score > power[q].score
                  \/ /\ power[p].score = power[q].score
                     /\ power[p].pf > power[q].pf
                  \/ /\ power[p].score = power[q].score
                     /\ power[p].pf = power[q].pf
                     /\ StandPos(power[p]) < StandPos(power[q])
        /\ standings = <<>> => power = <<>>

\* equal scores: points-for puts a later standings row first, and two rows
\* equal on both keys keep their standings order, with ranks 1, 2, 3
C17_Witness ==
    /\ PowerRan
    /\ Len(power) = 3
    /\ power[1].score = power[3].score
    /\ power[1].pf = power[2].pf
    /\ power[2].pf > power[3].pf
    /\ StandPos(power[3]) = 1
    /\ StandPos(power[1]) < StandPos(power[2])
    /\ power[1].rank = 1 /\ power[2].rank = 2 /\ power[3].rank = 3

-----------------------------------------------------------------------------
(* Properties of the narrative *)

NarrRan == pc = "narrative"

\* C18: with non-empty matchups, the underperformance callout (when present)
\* and the lowest-score callout both use phrasing index (week - 1) mod 3;
\* weeks w and w + 3 select the same phrasings, weeks 1, 2, 3 select 0, 1, 2,
\* and the index is in 0..2 for week >= 1.
C18_PhrasingRotation ==
    (NarrRan /\ matchups # <<>>) =>
        /\ narrative.k = "text"
        /\ narrative.lowest.phrasing = (week - 1) % 3
        /\ narrative.lowest.phrasing = ((week + 3) - 1) % 3
        /\ narrative.under.k = "line" =>
              narrative.under.phrasing = narrative.lowest.phrasing
        /\ week >= 1 => narrative.lowest.phrasing \in 0..2
        /\ week \in {1, 2, 3} => narrative.lowest.phrasing = week - 1

C18_Witness ==
    /\ NarrRan
    /\ week = 5
    /\ narrative.k = "text"
    /\ narrative.under.k = "line"
    /\ narrative.under.phrasing = 1
    /\ narrative.lowest.phrasing = 1

\* the game line of a matchup
LineOf(m) == [home |-> m.home, away |-> m.away, abs_margin |-> m.abs_margin]

\* C19: the 'closest' game is a matchup of minimum abs_margin and the
\* 'blowout' game one of maximum abs_margin, tied and undecided matchups
\* included and the first in order chosen among equal margins; for
\* [110 - 90 flag HOME, 80 - 80 flag TIE] the matchups are winner home
\* margin 20 and winner tie margin 0, closest is the second and blowout the
\* first.
C19_ClosestAndBlowout ==
    NarrRan =>
        /\ matchups = <<>> <=> narrative.k = "none"
        /\ matchups # <<>> =>
              /\ \E c \in DOMAIN matchups :
                    /\ narrative.closest = LineOf(matchups[c])
                    /\ \A j \in DOMAIN matchups :
                          /\ matchups[j].abs_margin >= matchups[c].abs_margin
                          /\ j < c => matchups[j].abs_margin > matchups[c].abs_margin
              /\ \E b \in DOMAIN matchups :
                    /\ narrative.blowout = LineOf(matchups[b])
                    /\ \A j \in DOMAIN matchups :
                          /\ matchups[j].abs_margin <= matchups[b].abs_margin
                          /\ j < b => matchups[j].abs_margin < matchups[b].abs_margin
        /\ (/\ week = 1
            /\ schedule = <<GameEntry(<<1, 2, Num(110000), Num(90000)>>, Str(<<"HOME">>)),
                            GameEntry(<<5, 6, Num(80000), Num(80000)>>, Str(<<"TIE">>))>>)
              => /\ Len(matchups) = 2
                 /\ matchups[1].winner = "home" /\ matchups[1].abs_margin = 20000
                 /\ matchups[2].winner = "tie" /\ matchups[2].abs_margin = 0
                 /\ narrative.closest = LineOf(matchups[2])
                 /\ narrative.blowout = LineOf(matchups[1])

\* the example: a decided game then a tied one
C19_Witness ==
    /\ NarrRan
    /\ Len(matchups) = 2
    /\ matchups[1].home_pts = 110000 /\ matchups[1].away_pts = 90000
    /\ matchups[1].winner = "home" /\ matchups[1].abs_margin = 20000
    /\ matchups[2].home_pts = 80000 /\ matchups[2].away_pts = 80000
    /\ matchups[2].winner = "tie" /\ matchups[2].abs_margin = 0
    /\ narrative.closest.home = <<"Team", " ", "5">>
    /\ narrative.blowout.home = <<"A">>

\* projected minus scored, for a week row with a projection
Deficit(row) == row.proj.n - row.pts

\* the week rows with a projection at least 20 points above the score
Qualifying ==
    {i \in DOMAIN week_rows.rows :
        /\ week_rows.rows[i].proj.k = "num"
        /\ Deficit(week_rows.rows[i]) >= 20000}

FirstLowest(cands) ==
    CHOOSE i \in DOMAIN cands :
        \A j \in DOMAIN cands :
            /\ cands[j].key >= cands[i].key
            /\ j < i => cands[j].key > cands[i].key

LowestCalloutIsFirst ==
    /\ narrative.lowest.team = SideCands(matchups)[FirstLowest(SideCands(matchups))].team
    /\ narrative.lowest.team = lowest_scoring_team(matchups).winner

\* C21: with non-empty matchups the team of the lowest-score callout is the
\* side of minimum points over all sides of all matchups, the first in
\* iteration order (earlier matchup first, home before away) when several
\* sides share the minimum, which is the pick of the week 14 rule on the
\* same matchups.
C21_LowestCallout ==
    (NarrRan /\ matchups # <<>>) => LowestCalloutIsFirst

\* the same, unless the two sides of the lowest game scored the same
LowestCalloutUnlessDrawn ==
    (NarrRan /\ matchups # <<>>
        /\ matchups[LowestPairIdx(matchups)].home_pts
            # matchups[LowestPairIdx(matchups)].away_pts)
        => LowestCalloutIsFirst

\* the distance of a row's points from its projected total, as stored
RowDiff(row) == Round2(Abs(row.pts - StarterProjSum(row)))

\* the week 12 result is absent iff no row is a candidate, and otherwise
\* names a candidate whose distance no other candidate's is below
ClosestAmong(cands) ==
    /\ challenge = NoChallenge <=> cands = {}
    /\ cands # {} =>
          \E i \in cands :
              /\ challenge.winner = week_rows.rows[i].team
              /\ challenge.detail.nums[1] = RowDiff(week_rows.rows[i])
              /\ \A j \in cands :
                    RowDiff(week_rows.rows[i]) <= RowDiff(week_rows.rows[j])

Week12Ran ==
    ChalRan /\ week = 12 /\ week_rows.k = "list" /\ week_rows.rows # <<>>

\* C22: a projection of 0 is a projection: the week 12 rule counts a team
\* whose starters are all projected 0.0 as a candidate with projected total
\* 0, and skips only the teams none of whose starters has a projection.
C22_ZeroProjectionPresent ==
    Week12Ran =>
        ClosestAmong({i \in DOMAIN week_rows.rows :
                        ~NoStarterProj(week_rows.rows[i])})

\* what the rule does: its candidates are the teams with a starter whose
\* projection is a number other than 0
Week12CountsNonZero ==
    Week12Ran =>
        ClosestAmong({i \in DOMAIN week_rows.rows :
                        HasCountedProj(week_rows.rows[i])})

BenchCands == PlayerCands(week_rows.rows, "bench")

Week3Result == ChalRan /\ week = 3 /\ challenge.k = "result"

\* C24: the week 3 challenge, titled 'Highest scoring bench player', names
\* the team owning the bench player with the maximum points among all bench
\* players of all week rows.
C24_HighestBenchPlayer ==
    Week3Result =>
        /\ challenge.subtitle = "Highest scoring bench player"
        /\ \E i \in DOMAIN BenchCands :
              /\ challenge.winner = BenchCands[i].team
              /\ challenge.detail.player = BenchCands[i].player
              /\ \A j \in DOMAIN BenchCands :
                    BenchCands[j].key <= BenchCands[i].key

\* what the rule does: it names the bench player with the minimum points
Week3PicksLowest ==
    Week3Result =>
        /\ challenge.subtitle = "Highest scoring bench player"
        /\ \E i \in DOMAIN BenchCands :
              /\ challenge.winner = BenchCands[i].team
              /\ challenge.detail.player = BenchCands[i].player
              /\ \A j \in DOMAIN BenchCands :
                    BenchCands[j].key >= BenchCands[i].key

StarterCands == PlayerCands(week_rows.rows, "starters")

\* no starter of any week row has the position
NoStarterAt(pos) == \A i \in DOMAIN StarterCands : ~AtPos(StarterCands[i], pos)

NoStarterInFlex ==
    \A i \in DOMAIN StarterCands :
        StarterCands[i].slotId # Num(LINEUP_SLOT_FLEX)

\* the weeks of a rule that selects among the starters, and no starter
\* qualifies
NoQualifyingStarter(wk) ==
    /\ ChalRan /\ week = wk /\ week_rows.k = "list" /\ week_rows.rows # <<>>
    /\ CASE wk = 6 -> NoStarterAt(POS_K)
         [] wk = 7 -> NoStarterAt(POS_QB)
         [] wk = 10 -> NoStarterAt(POS_DST)
         [] wk = 11 -> NoStarterAt(POS_RB)
         [] wk = 15 -> NoStarterInFlex
         [] wk = 16 -> NoStarterAt(POS_TE)

\* C25: a rule with no qualifying candidate yields absent: the week 11 rule
\* returns absent when week_rows is non-empty and no starter of any team is
\* a running back, as the week 6, 7, 10, 15 and 16 rules return absent when
\* no starter has the required position or slot.
C25_NoCandidateAbsent ==
    \A wk \in {6, 7, 10, 11, 15, 16} :
        NoQualifyingStarter(wk) => challenge = NoChallenge

\* the same of the rules of weeks 6, 7, 10, 15 and 16
NoCandidateAbsentExceptWeek11 ==
    \A wk \in {6, 7, 10, 15, 16} :
        NoQualifyingStarter(wk) => challenge = NoChallenge

\* what the week 11 rule does with no running back among the starters: it
\* names the first week row with a total of 0
Week11NamesFirstRow ==
    NoQualifyingStarter(11) =>
        /\ challenge.k = "result"
        /\ challenge.winner = week_rows.rows[1].team
        /\ challenge.detail.nums = <<0>>

\* C28: for every week 1..17 and every input for which compute_week_challenge
\* returns a result, the result's subtitle is get_challenge_title_by_week of
\* the week: the rule table and the title table never disagree.
C28_SubtitleIsWeekTitle ==
    (ChalRan /\ challenge.k = "result") =>
        /\ week \in 1..17
        /\ get_challenge_title_by_week(week) = [k |-> "str", title |-> challenge.subtitle]

C28_Witness ==
    /\ ChalRan /\ week = 17 /\ challenge.k = "result"
    /\ challenge.subtitle = "First Team Out"
    /\ challenge.winner = standings[7].name

\* the weeks for which some input gives a result
ResultAtWeek(wk) == ChalRan /\ week = wk /\ challenge.k = "result"

-----------------------------------------------------------------------------
(* The two derivations of a week's games *)

\* the schedule entries the Matchup Summarizer keeps, in order
KeptEntries == SelectSeq(schedule, LAMBDA e : MatchupKept(e, week))

\* every schedule entry of the week has both sides, and the boxscore lists
\* the scoreboard's schedule
BothViews ==
    /\ pc \in {"week_rows", "challenge", "power", "upcoming", "weekly",
             "narrative"}
    /\ boxscore = Boxscore(schedule)
    /\ \A i \in DOMAIN schedule :
          Get(schedule[i].matchupPeriodId) = Num(week)
              => schedule[i].home.has /\ schedule[i].away.has

WonAgrees(i) ==
    /\ week_rows.rows[2 * i - 1].won <=> matchups[i].winner = "home"
    /\ week_rows.rows[2 * i].won <=> matchups[i].winner = "away"
    /\ ~(week_rows.rows[2 * i - 1].won /\ week_rows.rows[2 * i].won)

\* C29: for a schedule entry of the week that has both sides and appears
\* with the same points and winner flag in the scoreboard and the boxscore,
\* the home week row has won = true iff the matchup's winner is 'home', the
\* away week row has won = true iff it is 'away', and at most one of the two
\* rows has won = true.
C29_WinnersAgree ==
    BothViews =>
        /\ Len(week_rows.rows) = 2 * Len(matchups)
        /\ \A i \in DOMAIN matchups : WonAgrees(i)

FlagNamesSide(e) == WinnerFlag(e) \in {<<"HOME">>, <<"AWAY">>}

\* the same for the entries whose flag names no side; at most one row of a
\* pair has won = true whatever the flag
WinnersAgreeUnflagged ==
    BothViews =>
        /\ Len(week_rows.rows) = 2 * Len(matchups)
        /\ \A i \in DOMAIN matchups :
              /\ ~FlagNamesSide(KeptEntries[i]) => WonAgrees(i)
              /\ ~(week_rows.rows[2 * i - 1].won /\ week_rows.rows[2 * i].won)

-----------------------------------------------------------------------------
(* The week 8 rule *)

Week8Ran == ChalRan /\ week = 8

IsDecided(m) == m.winner \in {"home", "away"}

LoserName(m) == IF m.winner = "home" THEN m.away ELSE m.home
LoserPts(m) == IF m.winner = "home" THEN m.away_pts ELSE m.home_pts
WinnerPts(m) == IF m.winner = "home" THEN m.home_pts ELSE m.away_pts

\* the result names the losing side of decided matchup i, and no losing side
\* of a decided matchup scored more
NamesLoserOf(i) ==
    /\ IsDecided(matchups[i])
    /\ challenge.winner = LoserName(matchups[i])
    /\ challenge.detail.nums = <<LoserPts(matchups[i])>>
    /\ \A j \in DOMAIN matchups :
          IsDecided(matchups[j]) => LoserPts(matchups[j]) <= LoserPts(matchups[i])

AbsentIffNoneDecided ==
    challenge = NoChallenge <=> \A j \in DOMAIN matchups : ~IsDecided(matchups[j])

-----------------------------------------------------------------------------
(* Properties of the table of all weeks *)

\* build_weekly_challenges was called
WeeklyCalled == pc \in {"weekly", "narrative", "exit"}

\* the challenge of week wk computed from the payloads
ComputedFor(wk) ==
    compute_week_challenge(wk, summarize_matchups(schedule, teams, wk),
                           standings,
                           build_week_stats_from_boxscore(boxscore, teams, wk))

\* the row of week wk: its title, 'TBD' iff the week is to come, and for a
\* week not to come the computed winner, or the placeholder when the rule
\* gives no result or the fetch raised
RowAsStated(wk) ==
    LET row == weekly_challenges[wk]
    IN  /\ row.week = wk
        /\ row.title = titles[wk]
        /\ row.winner = TBD <=> wk > week
        /\ wk <= week =>
              IF net[wk] = "ok" /\ ComputedFor(wk).k = "result"
              THEN /\ row.winner = ComputedFor(wk).winner
                   /\ row.detail = ComputedFor(wk).detail
              ELSE row.winner = Placeholder /\ row.detail = NoDetail
        /\ (wk = week /\ net[wk] = "ok" /\ challenge.k = "result") =>
              row.winner = challenge.winner

TableAsStated ==
    /\ DOMAIN weekly_challenges = 1..17
    /\ \A wk \in 1..17 : RowAsStated(wk)

\* C23: build_weekly_challenges returns exactly 17 rows, for weeks 1..17 in
\* increasing order, each with the week's title; a row has winner 'TBD' iff
\* its week is greater than the current week, and a row of a week up to the
\* current one carries the computed winner, or the placeholder when the rule
\* gives no result or the computation fails; a failure in one week never
\* removes or changes another week's row.
C23_WeeklyTable == WeeklyCalled => TableAsStated

\* the table is as stated whenever build_weekly_challenges returns
WeeklyTableWhenReturned == pc \in {"weekly", "narrative"} => TableAsStated

\* it does not return when the scoreboard of a week up to the current one
\* cannot be fetched: the program exits with no table
ExitOnLostScoreboard ==
    WeeklyCalled =>
        (pc = "exit" <=> \E wk \in 1..17 : wk <= week /\ net[wk] = "exit")

-----------------------------------------------------------------------------
(* Properties of the fetch *)

RequestsOf(view) == SelectSeq(http, LAMBDA q : q.view = view)

ScoreboardRequests == RequestsOf("mMatchupScore")

\* hosts in list order, at most 3 attempts on each, nothing after a success
ScoreboardInOrder ==
    LET rs == ScoreboardRequests
    IN  /\ Len(rs) <= 6
        /\ \A h \in 1..HostCount :
              Cardinality({i \in DOMAIN rs : rs[i].host = h}) <= 3
        /\ \A i, j \in DOMAIN rs : i < j => rs[i].host <= rs[j].host
        /\ \A i \in DOMAIN rs : rs[i].ok => i = Len(rs)

\* the program exits through fail() iff six scoreboard requests were made
\* and none succeeded, and then no other request is made
ExitIffNoScoreboard ==
    /\ (Len(ScoreboardRequests) = 6 /\ ~ScoreboardRequests[6].ok) =>
          pc \in {"exit", "raised"}
    /\ pc = "exit" =>
          /\ Len(http) = 6
          /\ \A i \in DOMAIN http :
                http[i].view = "mMatchupScore" /\ ~http[i].ok

\* no derivation runs without a scoreboard payload, and no teams or
\* boxscore request is made without one
ScoreboardFirst ==
    /\ pc \notin {"fetch", "exit", "raised"} => out.scoreboard = "json"
    /\ (RequestsOf("mTeam") # <<>> \/ RequestsOf("mMatchup") # <<>>) =>
          out.scoreboard = "json"

\* a value is fetched iff one of its requests succeeded; with no success it
\* stays None
ValueIffFetched ==
    /\ out.boxscore = "json" <=> \E i \in DOMAIN http :
                                    http[i].view = "mMatchup" /\ http[i].ok
    /\ out.teams = "list" <=>
          \/ \E i \in DOMAIN http : http[i].view = "mTeam" /\ http[i].ok
          \/ out.scoreboard = "json" /\ server.sb_teams = "list"
    /\ Len(RequestsOf("mTeam")) <= HostCount
    /\ Len(RequestsOf("mMatchup")) <= HostCount

\* the run is not aborted once the scoreboard is had
NoAbortAfterScoreboard ==
    out.scoreboard = "json" => pc \notin {"exit", "raised"}

\* C26: espn_fetch_jsons tries the scoreboard on the hosts in list order
\* with at most 3 attempts per host, stops at the first attempt that returns
\* HTTP 200 with a JSON content type and makes no further scoreboard
\* request; if every attempt fails it calls fail() and exits, so no teams or
\* boxscore request is made and no transformation runs without a scoreboard
\* payload; a failed teams or boxscore fetch leaves that value None and does
\* not abort.
C26_FetchDiscipline ==
    /\ ScoreboardInOrder
    /\ ExitIffNoScoreboard
    /\ ScoreboardFirst
    /\ ValueIffFetched
    /\ NoAbortAfterScoreboard

\* the same without the last part: what holds of every run
FetchDisciplineButAbort ==
    /\ ScoreboardInOrder
    /\ ExitIffNoScoreboard
    /\ ScoreboardFirst
    /\ ValueIffFetched

\* a run is aborted after the scoreboard is had exactly when a teams or
\* boxscore request raises
AbortIffRequestRaises ==
    (out.scoreboard = "json" /\ pc \in {"exit", "raised"}) =>
        /\ pc = "raised"
        /\ http[Len(http)].view \in {"mTeam", "mMatchup"}
        /\ ~http[Len(http)].ok


(***************************************************************************)
(* gmail_send.py: delivering the composed email                            *)
(***************************************************************************)

\* os.getenv(name, default) of a variable of the environment
getenv(v, default) == IF v.k = "str" THEN v.s ELSE default

\* SEND_MODE = os.getenv("SEND_MODE", "draft").strip().lower()
SEND_MODE(env) == Lower(Strip(getenv(env.SEND_MODE, <<"draft">>)))

\* FROM_EMAIL = os.environ["FROM_EMAIL"].strip()
FROM_EMAIL(env) == Strip(getenv(env.FROM_EMAIL, <<>>))

\* RECIPIENTS_CSV = os.getenv("RECIPIENTS", "").strip()
RECIPIENTS_CSV(env) == Strip(getenv(env.RECIPIENTS, <<>>))

\* `if not os.environ.get(k)` over REQUIRED_VARS
RequiredVarsSet(env) ==
    /\ env.FROM_EMAIL.k = "str"
    /\ env.FROM_EMAIL.s # <<>>
    /\ env.secrets

\* s.split(",")
RECURSIVE SplitComma(_)
SplitComma(s) ==
    IF \A i \in DOMAIN s : s[i] # ","
    THEN <<s>>
    ELSE LET i == CHOOSE j \in DOMAIN s :
                      s[j] = "," /\ \A h \in 1..(j - 1) : s[h] # ","
         IN  <<SubSeq(s, 1, i - 1)>> \o SplitComma(SubSeq(s, i + 1, Len(s)))

\* [e.strip() for e in parts if e.strip()]
RECURSIVE StrippedNonEmpty(_)
StrippedNonEmpty(parts) ==
    IF parts = <<>>
    THEN <<>>
    ELSE LET e == Strip(Head(parts))
         IN  (IF e # <<>> THEN <<e>> ELSE <<>>) \o StrippedNonEmpty(Tail(parts))

determine_recipients(env) ==
    IF RECIPIENTS_CSV(env) # <<>>
    THEN StrippedNonEmpty(SplitComma(RECIPIENTS_CSV(env)))
    ELSE <<FROM_EMAIL(env)>>

\* the subject load_content() returns
LoadedSubject(env) == Strip(getenv(env.subject_txt, <<>>))

DraftTag == <<"[DRAFT]", " ">>

final_subject_AlwaysTagged(subject, mode) == DraftTag \o subject

\* final_subject = f"[DRAFT] {subject}" if SEND_MODE == "draft" else subject
final_subject(subject, mode) ==
    IF mode = <<"draft">> THEN DraftTag \o subject ELSE subject

ApiCall(kind, msg) == [kind |-> kind, subject |-> msg.subject, to |-> msg.to]

ApiOutcomes == {"ok", "HttpError", "Exception"}

SendModes ==
    {JMissing, Str(<<"draft">>), Str(<<" ", "Draft", " ">>), Str(<<"send">>),
     Str(<<"SEND">>), Str(<<>>), Str(<<"preview">>)}

FromEmails == {JMissing, Str(<<"me@x">>), Str(<<" ", "me@x">>)}

RecipientLists ==
    {JMissing, Str(<<>>), Str(<<" ">>), Str(<<"a@x">>),
     Str(<<"a@x", ",", " ", "b@x">>), Str(<<",">>), Str(<<"a@x", ",", ",", " ">>)}

SubjectFiles ==
    {JMissing, Str(<<"Fantasy Week 1 Results & Notes">>),
     Str(<<"Fantasy Week 1 Results & Notes", " ">>)}

MailEnvs ==
    [FROM_EMAIL : FromEmails, SEND_MODE : SendModes, RECIPIENTS : RecipientLists,
     subject_txt : SubjectFiles, secrets : BOOLEAN]

\* the report step is over and gmail_send.py is started
InitMail ==
    /\ pc = "written"
    /\ week = FirstWeek
    /\ teams = <<>>
    /\ schedule = <<>>
    /\ boxscore = NoBoxscore
    /\ NothingDerived
    /\ AllFetched
    /\ mail_env \in MailEnvs
    /\ mail_pc = "import"
    /\ mail_msg = NoMessage
    /\ api_calls = <<>>

Report ==
    <<pc, week, teams, schedule, boxscore, team_map, matchups, standings,
      week_rows, challenge, power, next_challenge, narrative,
      weekly_challenges, fetchVars>>

\* module level: the required variables are checked before anything else
ImportModule ==
    /\ mail_pc = "import"
    /\ mail_pc' = IF RequiredVarsSet(mail_env) THEN "main" ELSE "failed"
    /\ UNCHANGED <<Report, mail_env, mail_msg, api_calls>>

\* main(): SEND_MODE must be 'draft' or 'send'
CheckSendMode ==
    /\ mail_pc = "main"
    /\ mail_pc' = IF SEND_MODE(mail_env) \in {<<"draft">>, <<"send">>}
                  THEN "checked"
                  ELSE "failed"
    /\ UNCHANGED <<Report, mail_env, mail_msg, api_calls>>

LoadContent ==
    /\ mail_pc = "checked"
    /\ IF mail_env.subject_txt.k = "str"
       THEN /\ mail_msg' = [mail_msg EXCEPT !.subject = LoadedSubject(mail_env)]
            /\ mail_pc' = "loaded"
       ELSE /\ mail_pc' = "failed"
            /\ UNCHANGED mail_msg
    /\ UNCHANGED <<Report, mail_env, api_calls>>

DetermineRecipients ==
    /\ mail_pc = "loaded"
    /\ LET recipients == determine_recipients(mail_env)
       IN  IF recipients = <<>>
           THEN /\ mail_pc' = "failed"
                /\ UNCHANGED mail_msg
           ELSE /\ mail_msg' = [mail_msg EXCEPT !.to = recipients]
                /\ mail_pc' = "addressed"
    /\ UNCHANGED <<Report, mail_env, api_calls>>

BuildMessage ==
    /\ mail_pc = "addressed"
    /\ mail_msg' = [mail_msg EXCEPT
                       !.subject = final_subject(mail_msg.subject, SEND_MODE(mail_env))]
    /\ mail_pc' = "built"
    /\ UNCHANGED <<Report, mail_env, api_calls>>

GetService ==
    /\ mail_pc = "built"
    /\ \E built \in BOOLEAN : mail_pc' = IF built THEN "service" ELSE "failed"
    /\ UNCHANGED <<Report, mail_env, mail_msg, api_calls>>

SendOrDraft ==
    /\ mail_pc = "service"
    /\ LET mode == SEND_MODE(mail_env)
       IN  IF mode \in {<<"draft">>, <<"send">>}
           THEN \E outcome \in ApiOutcomes :
                    /\ api_calls' = Append(api_calls,
                                      ApiCall(IF mode = <<"draft">>
                                              THEN "drafts.create"
                                              ELSE "messages.send", mail_msg))
                    /\ mail_pc' = CASE outcome = "ok" -> "done"
                                    [] outcome = "HttpError" -> "raised"
                                    [] OTHER -> "failed"
           ELSE /\ mail_pc' = "failed"
                /\ UNCHANGED api_calls
    /\ UNCHANGED <<Report, mail_env, mail_msg>>

MailNext ==
    \/ ImportModule
    \/ CheckSendMode
    \/ LoadContent
    \/ DetermineRecipients
    \/ BuildMessage
    \/ GetService
    \/ SendOrDraft

SpecMail == InitMail /\ [][MailNext]_vars

ModeIsOther == SEND_MODE(mail_env) \notin {<<"draft">>, <<"send">>}

RecipientsUnsetOrEmpty ==
    mail_env.RECIPIENTS = JMissing \/ mail_env.RECIPIENTS = Str(<<>>)

ContentNotLoaded ==
    /\ mail_pc \in {"import", "main", "failed"}
    /\ mail_msg = NoMessage

CallAsMode(c) ==
    /\ c.kind = "drafts.create" <=> SEND_MODE(mail_env) = <<"draft">>
    /\ c.kind = "messages.send" <=> SEND_MODE(mail_env) = <<"send">>
    /\ c.kind = "drafts.create" => c.subject = DraftTag \o LoadedSubject(mail_env)
    /\ c.kind = "messages.send" => c.subject = LoadedSubject(mail_env)

\* C27: a run of gmail_send.py makes at most one Gmail API call, and a
\* completed run exactly one; the call creates a draft iff SEND_MODE, trimmed
\* and lower-cased, is 'draft', and then the subject is '[DRAFT] ' followed by
\* the loaded subject; it sends a message iff the mode is 'send', with the
\* loaded subject unchanged; with any other mode the run fails before content
\* is loaded and makes no call; with RECIPIENTS unset or empty the recipients
\* are exactly FROM_EMAIL.
C27_AtMostOneCall ==
    /\ Len(api_calls) <= 1
    /\ mail_pc = "done" => Len(api_calls) = 1
    /\ \A i \in DOMAIN api_calls : CallAsMode(api_calls[i])
    /\ ModeIsOther => ContentNotLoaded /\ api_calls = <<>>
    /\ RecipientsUnsetOrEmpty =>
          /\ mail_pc \in {"addressed", "built", "service", "done", "raised"} =>
                 mail_msg.to = <<FROM_EMAIL(mail_env)>>
          /\ \A i \in DOMAIN api_calls : api_calls[i].to = <<FROM_EMAIL(mail_env)>>

\* a message was sent under SEND_MODE=SEND with RECIPIENTS unset
C27_Witness ==
    /\ mail_pc = "done"
    /\ mail_env.SEND_MODE = Str(<<"SEND">>)
    /\ mail_env.RECIPIENTS = JMissing
    /\ mail_env.FROM_EMAIL = Str(<<" ", "me@x">>)
    /\ api_calls = <<[kind |-> "messages.send",
                      subject |-> <<"Fantasy Week 1 Results & Notes">>,
                      to |-> <<<<"me@x">>>>]>>

\* a draft was created under SEND_MODE=" Draft " for two recipients
DraftCreated ==
    /\ mail_env.SEND_MODE = Str(<<" ", "Draft", " ">>)
    /\ api_calls = <<[kind |-> "drafts.create",
                      subject |-> <<"[DRAFT]", " ", "Fantasy Week 1 Results & Notes">>,
                      to |-> <<<<"a@x">>, <<"b@x">>>>]>>

\* a run with another mode has failed
OtherModeFailed == ModeIsOther /\ mail_pc = "failed"

====
